---- MODULE Spec2Model ----
(***************************************************************************)
(* A model of subtp's WebVTT module (src/src/vtt.rs): the document data    *)
(* model, its Display implementations (the renderer), the draining         *)
(* iterator, and the conversions between VttTimestamp and Duration.        *)
(*                                                                         *)
(* Text is modelled character by character: a text is a sequence of        *)
(* one-character strings, so that rendering and parsing are real           *)
(* conversions.  Option<T> is modelled as a sequence of length at most     *)
(* one (None == <<>>, Some(v) == <<v>>).  Integers wider than TLC's are    *)
(* modelled as decimal digit sequences ("Big"), most significant first.    *)
(***************************************************************************)
EXTENDS Integers, Sequences, FiniteSets, TLC

VARIABLES
    op,        \* the operation that produced the current state
    header,    \* WebVtt.header
    blocks,    \* WebVtt.blocks
    orig,      \* the block sequence the document was built with
    input,     \* the text last handed to WebVtt::parse (an Option)
    parsed,    \* the Result of the last WebVtt::parse (an Option)
    rendered,  \* the text returned by the last WebVtt::render (an Option)
    yielded,   \* the results of the next() calls so far, in call order
    subject,   \* the value a Display implementation is applied to
    shown,     \* the text that Display implementation produced (an Option)
    assigned,  \* the CueSettings fields assigned so far, in assignment order
    stamp,     \* a VttTimestamp
    stamp2,    \* the VttTimestamp it was last compared with (an Option)
    dur,       \* the Duration last converted to or from (an Option)
    converted, \* the VttTimestamp made from dur (an Option)
    ordering,  \* the result of the last comparison (an Option)
    panicked,  \* whether the last conversion panicked
    back,      \* the Result of converting `converted` to a Duration (an Option)
    cursor     \* the parser's main loop: the index of the next line to read

vars == <<op, header, blocks, orig, input, parsed, rendered, yielded,
          subject, shown, assigned, stamp, stamp2, dur, converted, ordering,
          panicked, back, cursor>>

docVars == <<header, blocks, orig, input, parsed, rendered, yielded, cursor>>
showVars == <<subject, shown, assigned>>
timeVars == <<stamp, stamp2, dur, converted, ordering, panicked, back>>

-----------------------------------------------------------------------------
(* Option and Result *)

None == <<>>
Some(v) == <<v>>
IsSome(o) == Len(o) = 1
Unwrap(o) == o[1]

Ok(v) == [ok |-> TRUE, val |-> v]
Err(e) == [ok |-> FALSE, err |-> e]

-----------------------------------------------------------------------------
(* Text helpers *)

NL == "\n"
SP == " "

\* The characters of a string literal.
Chars(str) == [i \in 1..Len(str) |-> SubSeq(str, i, i)]

RECURSIVE Join(_, _)
\* [String]::join(sep): the texts separated by sep.
Join(ts, sep) ==
    IF ts = <<>> THEN <<>>
    ELSE IF Len(ts) = 1 THEN ts[1]
    ELSE ts[1] \o sep \o Join(Tail(ts), sep)

DigitChars == Chars("0123456789")

RECURSIVE NatDigits(_)
\* The decimal digits of a natural number, most significant first.
NatDigits(n) == IF n < 10 THEN <<n>> ELSE Append(NatDigits(n \div 10), n % 10)

DigitsText(ds) == [i \in 1..Len(ds) |-> DigitChars[ds[i] + 1]]

\* format!("{}", n) for an unsigned integer that fits TLC's integers.
NatText(n) == DigitsText(NatDigits(n))

\* format!("{}", n) for a signed integer.
IntText(n) == IF n < 0 THEN <<"-">> \o NatText(0 - n) ELSE NatText(n)

\* A variant of PadZero that writes exactly w characters, keeping the last w.
PadZeroFixed(t, w) ==
    IF Len(t) >= w THEN SubSeq(t, Len(t) - w + 1, Len(t))
    ELSE [i \in 1..w |-> IF i <= w - Len(t) THEN "0" ELSE t[i - (w - Len(t))]]

RECURSIVE PadZero(_, _)
\* The "{:0w}" format flag: zeros on the left up to a MINIMUM width w.
PadZero(t, w) == IF Len(t) >= w THEN t ELSE PadZero(<<"0">> \o t, w)

-----------------------------------------------------------------------------
(* Big: unsigned integers beyond TLC's range, as decimal digits *)

RECURSIVE BigNorm(_)
BigNorm(ds) ==
    IF Len(ds) > 1 /\ ds[1] = 0 THEN BigNorm(Tail(ds)) ELSE ds

RECURSIVE BigToNat(_)
\* Only for values known to fit.
BigToNat(ds) ==
    IF Len(ds) = 1 THEN ds[1]
    ELSE BigToNat(SubSeq(ds, 1, Len(ds) - 1)) * 10 + ds[Len(ds)]

RECURSIVE BigMulCarry(_, _, _)
BigMulCarry(ds, c, carry) ==
    IF ds = <<>> THEN (IF carry = 0 THEN <<>> ELSE NatDigits(carry))
    ELSE LET v == ds[Len(ds)] * c + carry
         IN  Append(BigMulCarry(SubSeq(ds, 1, Len(ds) - 1), c, v \div 10), v % 10)

\* x * c for a small multiplier c.
BigMulSmall(x, c) == BigNorm(BigMulCarry(x, c, 0))

RECURSIVE BigAddCarry(_, _, _)
BigAddCarry(xs, ys, carry) ==
    IF xs = <<>> /\ ys = <<>> THEN (IF carry = 0 THEN <<>> ELSE <<carry>>)
    ELSE LET a == IF xs = <<>> THEN 0 ELSE xs[Len(xs)]
             b == IF ys = <<>> THEN 0 ELSE ys[Len(ys)]
             v == a + b + carry
             xr == IF xs = <<>> THEN <<>> ELSE SubSeq(xs, 1, Len(xs) - 1)
             yr == IF ys = <<>> THEN <<>> ELSE SubSeq(ys, 1, Len(ys) - 1)
         IN  Append(BigAddCarry(xr, yr, v \div 10), v % 10)

BigAdd(x, y) == BigNorm(BigAddCarry(x, y, 0))

RECURSIVE BigDivRem(_, _, _)
\* Long division by a small divisor c: <<quotient digits, remainder>>.
BigDivRem(ds, c, rem) ==
    IF ds = <<>> THEN <<<<>>, rem>>
    ELSE LET v == rem * 10 + ds[1]
             rest == BigDivRem(Tail(ds), c, v % c)
         IN  <<<<v \div c>> \o rest[1], rest[2]>>

BigDivSmall(x, c) == BigNorm(BigDivRem(x, c, 0)[1])
BigModSmall(x, c) == BigDivRem(x, c, 0)[2]

\* x / 10^k and x % 10^k.
BigDivPow10(x, k) == IF Len(x) <= k THEN <<0>> ELSE SubSeq(x, 1, Len(x) - k)
BigModPow10(x, k) ==
    IF Len(x) <= k THEN x ELSE BigNorm(SubSeq(x, Len(x) - k + 1, Len(x)))

RECURSIVE BigLexLess(_, _)
BigLexLess(x, y) ==
    IF x = <<>> THEN FALSE
    ELSE IF x[1] # y[1] THEN x[1] < y[1]
    ELSE BigLexLess(Tail(x), Tail(y))

BigLess(x, y) ==
    IF Len(x) # Len(y) THEN Len(x) < Len(y) ELSE BigLexLess(x, y)

TwoPow16 == 65536

\* `as u32` of an unsigned value: the value modulo 2^32.
BigAsU32(x) ==
    LET lo == BigModSmall(x, TwoPow16)
        hi == BigModSmall(BigDivSmall(x, TwoPow16), TwoPow16)
    IN  BigAdd(BigMulSmall(NatDigits(hi), TwoPow16), NatDigits(lo))

U32Max == <<4, 2, 9, 4, 9, 6, 7, 2, 9, 5>>
U64Max == <<1, 8, 4, 4, 6, 7, 4, 4, 0, 7, 3, 7, 0, 9, 5, 5, 1, 6, 1, 5>>

-----------------------------------------------------------------------------
(* The keywords of the format *)

KwWebVtt == Chars("WEBVTT")
KwNote == Chars("NOTE")
KwStyle == Chars("STYLE")
KwRegion == Chars("REGION")
KwArrow == Chars("-->")

-----------------------------------------------------------------------------
(* Primitive values and their Display implementations *)

\* struct VttTimestamp { hours: u32, minutes: u8, seconds: u8, milliseconds: u16 }
\* hours is a Big; the other fields fit TLC's integers.
VttTimestamp(h, m, s, ms) ==
    [hours |-> h, minutes |-> m, seconds |-> s, milliseconds |-> ms]

\* VttTimestamp::default()
VttTimestampDefault == VttTimestamp(<<0>>, 0, 0, 0)

\* A variant of VttTimestampDisplay with "{:02}" for the milliseconds.
VttTimestampDisplayShort(t) ==
    PadZero(DigitsText(t.hours), 2) \o <<":">>
        \o PadZero(NatText(t.minutes), 2) \o <<":">>
        \o PadZero(NatText(t.seconds), 2) \o <<".">>
        \o PadZero(NatText(t.milliseconds), 2)

\* impl Display for VttTimestamp: "{:02}:{:02}:{:02}.{:03}"
VttTimestampDisplay(t) ==
    PadZero(DigitsText(t.hours), 2) \o <<":">>
        \o PadZero(NatText(t.minutes), 2) \o <<":">>
        \o PadZero(NatText(t.seconds), 2) \o <<".">>
        \o PadZero(NatText(t.milliseconds), 3)

\* struct VttTimings { start, end }
VttTimings(s, e) == [start |-> s, end |-> e]

\* A variant of VttTimingsDisplay without the spaces around the arrow.
VttTimingsDisplayTight(t) ==
    VttTimestampDisplay(t.start) \o KwArrow \o VttTimestampDisplay(t.end)

\* impl Display for VttTimings: "{} --> {}"
VttTimingsDisplay(t) ==
    VttTimestampDisplay(t.start) \o <<SP>> \o KwArrow \o <<SP>>
        \o VttTimestampDisplay(t.end)

\* struct Percentage { value: f32 }.  The value is held as a decimal: its
\* integer part and the digits of its fractional part (no trailing zero),
\* which is the shortest decimal that f32's Display prints for it.
Percentage(w, f) == [whole |-> w, frac |-> f]

\* f32::fract() == 0.0
FractIsZero(p) == p.frac = <<>>

\* A variant of PercentageDisplay that always writes `value as i32`.
PercentageDisplayTruncated(p) == NatText(p.whole) \o <<"%">>

\* impl Display for Percentage
PercentageDisplay(p) ==
    IF FractIsZero(p)
    THEN NatText(p.whole) \o <<"%">>
    ELSE NatText(p.whole) \o <<".">> \o DigitsText(p.frac) \o <<"%">>

\* struct Anchor { x: Percentage, y: Percentage }
Anchor(x, y) == [x |-> x, y |-> y]

\* impl Display for Anchor: "{},{}"
AnchorDisplay(a) == PercentageDisplay(a.x) \o <<",">> \o PercentageDisplay(a.y)

\* impl Display for Scroll
ScrollDisplay(s) == Chars("up")

\* impl Display for Vertical
VerticalDisplay(v) == IF v = "Rl" THEN Chars("rl") ELSE Chars("lr")

\* impl Display for LineAlignment
LineAlignmentDisplay(a) ==
    CASE a = "Start" -> Chars("start")
      [] a = "Center" -> Chars("center")
      [] a = "End" -> Chars("end")

\* impl Display for PositionAlignment
PositionAlignmentDisplay(a) ==
    CASE a = "LineLeft" -> Chars("line-left")
      [] a = "Center" -> Chars("center")
      [] a = "LineRight" -> Chars("line-right")

\* impl Display for Alignment
AlignmentDisplay(a) ==
    CASE a = "Start" -> Chars("start")
      [] a = "Center" -> Chars("center")
      [] a = "End" -> Chars("end")
      [] a = "Left" -> Chars("left")
      [] a = "Right" -> Chars("right")

\* enum Line { Percentage(Percentage, Option<LineAlignment>),
\*             LineNumber(i32, Option<LineAlignment>) }
LinePercentage(p, a) == [kind |-> "Percentage", value |-> p, align |-> a]
LineNumber(n, a) == [kind |-> "LineNumber", value |-> n, align |-> a]

\* impl Display for Line
LineDisplay(l) ==
    LET v == IF l.kind = "Percentage"
             THEN PercentageDisplay(l.value)
             ELSE IntText(l.value)
    IN  IF IsSome(l.align)
        THEN v \o <<",">> \o LineAlignmentDisplay(Unwrap(l.align))
        ELSE v

\* struct Position { value: Percentage, alignment: Option<PositionAlignment> }
Position(p, a) == [value |-> p, alignment |-> a]

\* impl Display for Position
PositionDisplay(p) ==
    IF IsSome(p.alignment)
    THEN PercentageDisplay(p.value) \o <<",">>
             \o PositionAlignmentDisplay(Unwrap(p.alignment))
    ELSE PercentageDisplay(p.value)

-----------------------------------------------------------------------------
(* Cue settings, cues, and the other blocks *)

\* struct CueSettings: six optional fields.
CueSettings(v, l, p, s, a, r) ==
    [vertical |-> v, line |-> l, position |-> p, size |-> s, align |-> a,
     region |-> r]

\* CueSettings::default()
CueSettingsDefault == CueSettings(None, None, None, None, None, None)

\* One "key:value" token, pushed only when the field is Some.
SettingToken(key, field, val) ==
    IF IsSome(field) THEN <<key \o <<":">> \o val>> ELSE <<>>

\* A variant of CueSettingsDisplay that pushes the line token first.
CueSettingsDisplayLineFirst(s) ==
    LET settings ==
            SettingToken(Chars("line"), s.line,
                         IF IsSome(s.line)
                         THEN LineDisplay(Unwrap(s.line)) ELSE <<>>)
            \o SettingToken(Chars("vertical"), s.vertical,
                            IF IsSome(s.vertical)
                            THEN VerticalDisplay(Unwrap(s.vertical)) ELSE <<>>)
            \o SettingToken(Chars("position"), s.position,
                            IF IsSome(s.position)
                            THEN PositionDisplay(Unwrap(s.position)) ELSE <<>>)
            \o SettingToken(Chars("size"), s.size,
                            IF IsSome(s.size)
                            THEN PercentageDisplay(Unwrap(s.size)) ELSE <<>>)
            \o SettingToken(Chars("align"), s.align,
                            IF IsSome(s.align)
                            THEN AlignmentDisplay(Unwrap(s.align)) ELSE <<>>)
            \o SettingToken(Chars("region"), s.region,
                            IF IsSome(s.region) THEN Unwrap(s.region) ELSE <<>>)
    IN  Join(settings, <<SP>>)

\* impl Display for CueSettings: the tokens are pushed in the order of the
\* if-let statements and joined with " ".
CueSettingsDisplay(s) ==
    LET settings ==
            SettingToken(Chars("vertical"), s.vertical,
                         IF IsSome(s.vertical)
                         THEN VerticalDisplay(Unwrap(s.vertical)) ELSE <<>>)
            \o SettingToken(Chars("line"), s.line,
                            IF IsSome(s.line)
                            THEN LineDisplay(Unwrap(s.line)) ELSE <<>>)
            \o SettingToken(Chars("position"), s.position,
                            IF IsSome(s.position)
                            THEN PositionDisplay(Unwrap(s.position)) ELSE <<>>)
            \o SettingToken(Chars("size"), s.size,
                            IF IsSome(s.size)
                            THEN PercentageDisplay(Unwrap(s.size)) ELSE <<>>)
            \o SettingToken(Chars("align"), s.align,
                            IF IsSome(s.align)
                            THEN AlignmentDisplay(Unwrap(s.align)) ELSE <<>>)
            \o SettingToken(Chars("region"), s.region,
                            IF IsSome(s.region) THEN Unwrap(s.region) ELSE <<>>)
    IN  Join(settings, <<SP>>)

\* struct VttCue { identifier, timings, settings, payload }
VttCue(id, t, s, p) ==
    [identifier |-> id, timings |-> t, settings |-> s, payload |-> p]

\* A variant of VttCueDisplay that writes the settings right after the
\* end timestamp.
VttCueDisplayNoSpace(c) ==
    (IF IsSome(c.identifier) THEN Unwrap(c.identifier) \o <<NL>> ELSE <<>>)
        \o VttTimingsDisplay(c.timings)
        \o (IF IsSome(c.settings)
            THEN CueSettingsDisplay(Unwrap(c.settings))
            ELSE <<>>)
        \o <<NL>> \o Join(c.payload, <<NL>>) \o <<NL>>

\* A variant of VttCueDisplay that ends every payload line with a newline.
VttCueDisplayTerminated(c) ==
    (IF IsSome(c.identifier) THEN Unwrap(c.identifier) \o <<NL>> ELSE <<>>)
        \o VttTimingsDisplay(c.timings)
        \o (IF IsSome(c.settings)
            THEN <<SP>> \o CueSettingsDisplay(Unwrap(c.settings))
            ELSE <<>>)
        \o <<NL>> \o Join(c.payload \o <<<<>>>>, <<NL>>)

\* A variant of VttCueDisplay that writes no space for settings that have
\* no field.
VttCueDisplayTrimmed(c) ==
    (IF IsSome(c.identifier) THEN Unwrap(c.identifier) \o <<NL>> ELSE <<>>)
        \o VttTimingsDisplay(c.timings)
        \o (IF IsSome(c.settings) /\ CueSettingsDisplay(Unwrap(c.settings)) # <<>>
            THEN <<SP>> \o CueSettingsDisplay(Unwrap(c.settings))
            ELSE <<>>)
        \o <<NL>> \o Join(c.payload, <<NL>>) \o <<NL>>

\* impl Display for VttCue
VttCueDisplay(c) ==
    (IF IsSome(c.identifier) THEN Unwrap(c.identifier) \o <<NL>> ELSE <<>>)
        \o VttTimingsDisplay(c.timings)
        \o (IF IsSome(c.settings)
            THEN <<SP>> \o CueSettingsDisplay(Unwrap(c.settings))
            ELSE <<>>)
        \o <<NL>> \o Join(c.payload, <<NL>>) \o <<NL>>

\* enum VttComment { Side(String), Below(String) }
VttComment(k, t) == [kind |-> k, text |-> t]

\* A variant of VttCommentDisplay that writes both kinds on the NOTE line.
VttCommentDisplayAlike(c) == KwNote \o <<SP>> \o c.text \o <<NL>>

\* impl Display for VttComment
VttCommentDisplay(c) ==
    IF c.kind = "Side"
    THEN KwNote \o <<SP>> \o c.text \o <<NL>>
    ELSE KwNote \o <<NL>> \o c.text \o <<NL>>

\* struct VttStyle { style: String }
VttStyle(s) == [style |-> s]

\* impl Display for VttStyle
VttStyleDisplay(s) == KwStyle \o <<NL>> \o s.style \o <<NL>>

\* struct VttRegion: six optional fields; lines (u32) is a Big.
VttRegion(id, w, l, ra, va, sc) ==
    [id |-> id, width |-> w, lines |-> l, region_anchor |-> ra,
     viewport_anchor |-> va, scroll |-> sc]

\* VttRegion::default()
VttRegionDefault == VttRegion(None, None, None, None, None, None)

\* A variant of RegionLine that writes the line of an absent field too.
RegionLineAlways(key, field, val) == key \o <<":">> \o val \o <<NL>>

\* One "key:value\n" line, written only when the field is Some.
RegionLine(key, field, val) ==
    IF IsSome(field) THEN key \o <<":">> \o val \o <<NL>> ELSE <<>>

\* impl Display for VttRegion
VttRegionDisplay(r) ==
    KwRegion \o <<NL>>
        \o RegionLine(Chars("id"), r.id, IF IsSome(r.id) THEN Unwrap(r.id) ELSE <<>>)
        \o RegionLine(Chars("width"), r.width,
                      IF IsSome(r.width)
                      THEN PercentageDisplay(Unwrap(r.width)) ELSE <<>>)
        \o RegionLine(Chars("lines"), r.lines,
                      IF IsSome(r.lines)
                      THEN DigitsText(Unwrap(r.lines)) ELSE <<>>)
        \o RegionLine(Chars("regionanchor"), r.region_anchor,
                      IF IsSome(r.region_anchor)
                      THEN AnchorDisplay(Unwrap(r.region_anchor)) ELSE <<>>)
        \o RegionLine(Chars("viewportanchor"), r.viewport_anchor,
                      IF IsSome(r.viewport_anchor)
                      THEN AnchorDisplay(Unwrap(r.viewport_anchor)) ELSE <<>>)
        \o RegionLine(Chars("scroll"), r.scroll,
                      IF IsSome(r.scroll)
                      THEN ScrollDisplay(Unwrap(r.scroll)) ELSE <<>>)

\* enum VttBlock { Que(VttCue), Comment(VttComment), Style(VttStyle),
\*                 Region(VttRegion) }
VttBlock(tag, v) == [tag |-> tag, val |-> v]

\* impl Display for VttBlock
VttBlockDisplay(b) ==
    CASE b.tag = "Que" -> VttCueDisplay(b.val)
      [] b.tag = "Comment" -> VttCommentDisplay(b.val)
      [] b.tag = "Style" -> VttStyleDisplay(b.val)
      [] b.tag = "Region" -> VttRegionDisplay(b.val)

-----------------------------------------------------------------------------
(* The header and the document *)

\* enum VttDescription { Side(String), Below(String) }
VttDescription(k, t) == [kind |-> k, text |-> t]

\* A variant of VttDescriptionDisplay that writes both placements alike.
VttDescriptionDisplayAlike(d) == <<SP>> \o d.text

\* impl Display for VttDescription
VttDescriptionDisplay(d) ==
    IF d.kind = "Side" THEN <<SP>> \o d.text ELSE <<NL>> \o d.text

\* struct VttHeader { description: Option<VttDescription> }
VttHeader(d) == [description |-> d]

\* VttHeader::default()
VttHeaderDefault == VttHeader(None)

\* A variant of VttHeaderDisplay that leaves the description out.
VttHeaderDisplayBare(h) == KwWebVtt \o <<NL>>

\* impl Display for VttHeader
VttHeaderDisplay(h) ==
    IF IsSome(h.description)
    THEN KwWebVtt \o VttDescriptionDisplay(Unwrap(h.description)) \o <<NL>>
    ELSE KwWebVtt \o <<NL>>

\* struct WebVtt { header, blocks }
WebVtt(h, bs) == [header |-> h, blocks |-> bs]

RECURSIVE WriteBlocksEach(_, _)
\* A variant of WriteBlocks that writes "{}\n" for the last block too.
WriteBlocksEach(bs, i) ==
    IF i >= Len(bs) THEN <<>>
    ELSE VttBlockDisplay(bs[i + 1]) \o <<NL>> \o WriteBlocksEach(bs, i + 1)

RECURSIVE WriteBlocks(_, _)
\* The loop of impl Display for WebVtt, from its i-th iteration (i counts
\* from 0 as enumerate() does): "{}\n" unless the block is the last one.
WriteBlocks(bs, i) ==
    IF i >= Len(bs) THEN <<>>
    ELSE (IF i + 1 < Len(bs)
          THEN VttBlockDisplay(bs[i + 1]) \o <<NL>>
          ELSE VttBlockDisplay(bs[i + 1]))
         \o WriteBlocks(bs, i + 1)

\* impl Display for WebVtt
WebVttDisplay(v) ==
    VttHeaderDisplay(v.header) \o <<NL>> \o WriteBlocks(v.blocks, 0)

\* WebVtt::render
Render(v) == WebVttDisplay(v)

-----------------------------------------------------------------------------
(* The draining iterator *)

\* A variant of VecRemove that takes the last element.
VecRemoveLast(v, index) == <<v[Len(v)], SubSeq(v, 1, Len(v) - 1)>>

\* A variant of VecRemove that drops the elements after the removed one.
VecRemoveTruncating(v, index) == <<v[index + 1], SubSeq(v, 1, index)>>

\* Vec::remove(index): <<the removed element, the remaining vector>>, the
\* elements after it shifted to the left.
VecRemove(v, index) ==
    <<v[index + 1], SubSeq(v, 1, index) \o SubSeq(v, index + 2, Len(v))>>

\* A variant of IteratorNext that returns a default block when there is
\* none left.
IteratorNextUnfused(bs) ==
    IF bs = <<>>
    THEN <<Some(VttBlock("Comment", VttComment("Side", <<>>))), bs>>
    ELSE <<Some(bs[1]), Tail(bs)>>

\* impl Iterator for WebVtt, fn next: <<the returned Option, self.blocks after>>
IteratorNext(bs) ==
    IF bs = <<>>
    THEN <<None, bs>>
    ELSE LET r == VecRemove(bs, 0) IN <<Some(r[1]), r[2]>>

-----------------------------------------------------------------------------
(* VttTimestamp and Duration *)

NanosPerMilli == 1000000
SecsPerHour == 3600
SecsPerMinute == 60

\* std::time::Duration: whole seconds (u64, a Big) and nanoseconds below 10^9.
Duration(secs, nanos) == [secs |-> secs, nanos |-> nanos]

\* Duration::new(secs, nanos) for a u32 nanos (a Big): the whole seconds held
\* in nanos are carried into secs.
DurationNew(secs, nanos) ==
    Duration(BigAdd(secs, BigDivPow10(nanos, 9)), BigToNat(BigModPow10(nanos, 9)))

\* A variant of SubsecMillis that rounds to the nearest millisecond.
SubsecMillisRounded(d) == (d.nanos + 500000) \div NanosPerMilli

\* Duration::subsec_millis
SubsecMillis(d) == d.nanos \div NanosPerMilli

\* A variant of FromDuration that takes the minutes from all the seconds.
FromDurationAllMinutes(duration) ==
    LET seconds == duration.secs
        milliseconds == SubsecMillis(duration) % TwoPow16
        hours == BigAsU32(BigDivSmall(seconds, SecsPerHour))
        minutes == BigModSmall(BigDivSmall(seconds, SecsPerMinute), 256)
        secs == BigModSmall(seconds, SecsPerMinute) % 256
    IN  VttTimestamp(hours, minutes, secs, milliseconds)

\* A variant of FromDuration that takes the seconds from all the seconds.
FromDurationAllSeconds(duration) ==
    LET seconds == duration.secs
        milliseconds == SubsecMillis(duration) % TwoPow16
        hours == BigAsU32(BigDivSmall(seconds, SecsPerHour))
        minutes == (BigModSmall(seconds, SecsPerHour) \div SecsPerMinute) % 256
        secs == BigModSmall(seconds, 256)
    IN  VttTimestamp(hours, minutes, secs, milliseconds)

\* impl From<Duration> for VttTimestamp
FromDuration(duration) ==
    LET seconds == duration.secs
        milliseconds == SubsecMillis(duration) % TwoPow16
        hours == BigAsU32(BigDivSmall(seconds, SecsPerHour))
        minutes == (BigModSmall(seconds, SecsPerHour) \div SecsPerMinute) % 256
        secs == BigModSmall(seconds, SecsPerMinute) % 256
    IN  VttTimestamp(hours, minutes, secs, milliseconds)

\* The u32 product `self.milliseconds as u32 * 1_000_000`, before any wrapping.
MillisProduct(t) == BigMulSmall(NatDigits(t.milliseconds), NanosPerMilli)

\* Whether that product exceeds u32::MAX.
MillisOverflow(t) == BigLess(U32Max, MillisProduct(t))

\* impl Into<Duration> for VttTimestamp.  overflowChecks is the build's
\* overflow-checks setting: with it an overflowing multiplication panics,
\* without it the product wraps modulo 2^32.
IntoDuration(t, overflowChecks) ==
    LET secs == BigAdd(BigAdd(BigMulSmall(t.hours, SecsPerHour),
                              NatDigits(t.minutes * SecsPerMinute)),
                       NatDigits(t.seconds))
    IN  IF MillisOverflow(t) /\ overflowChecks
        THEN Err("attempt to multiply with overflow")
        ELSE Ok(DurationNew(secs, BigAsU32(MillisProduct(t))))

\* Ordering of two integers / Bigs, as Ord::cmp.
CmpNat(a, b) == IF a < b THEN "Less" ELSE IF a = b THEN "Equal" ELSE "Greater"
CmpBig(a, b) ==
    IF BigLess(a, b) THEN "Less" ELSE IF a = b THEN "Equal" ELSE "Greater"

\* A variant of VttTimestampCmp that compares the milliseconds before the
\* minutes and seconds.
VttTimestampCmpMillisFirst(a, b) ==
    IF CmpBig(a.hours, b.hours) # "Equal" THEN CmpBig(a.hours, b.hours)
    ELSE IF CmpNat(a.milliseconds, b.milliseconds) # "Equal"
         THEN CmpNat(a.milliseconds, b.milliseconds)
    ELSE IF CmpNat(a.minutes, b.minutes) # "Equal"
         THEN CmpNat(a.minutes, b.minutes)
    ELSE CmpNat(a.seconds, b.seconds)

\* #[derive(Ord, PartialOrd)] on VttTimestamp: the fields are compared in
\* declaration order, the first unequal one decides.
VttTimestampCmp(a, b) ==
    IF CmpBig(a.hours, b.hours) # "Equal" THEN CmpBig(a.hours, b.hours)
    ELSE IF CmpNat(a.minutes, b.minutes) # "Equal"
         THEN CmpNat(a.minutes, b.minutes)
    ELSE IF CmpNat(a.seconds, b.seconds) # "Equal"
         THEN CmpNat(a.seconds, b.seconds)
    ELSE CmpNat(a.milliseconds, b.milliseconds)

\* Ord for Duration: seconds first, then nanoseconds.
DurationCmp(a, b) ==
    IF CmpBig(a.secs, b.secs) # "Equal" THEN CmpBig(a.secs, b.secs)
    ELSE CmpNat(a.nanos, b.nanos)

-----------------------------------------------------------------------------
(* The parser.  crate::vtt_parser is not part of the available source:     *)
(* these definitions follow the specification's description of it          *)
(* (sections 4.1 to 4.4 and 7).  Intermediate values are passed as         *)
(* operator arguments, each operator deciding one step.                    *)

\* A parse failure: its kind (section 7) and the offending text.
Fail(kind, detail) == Err([kind |-> kind, detail |-> detail])

IsSpace(c) == c = SP \/ c = "\t"
DigitVal(c) == (CHOOSE d \in 1..10 : DigitChars[d] = c) - 1
AllDigits(t) ==
    t # <<>> /\ \A i \in 1..Len(t) : \E d \in 1..10 : DigitChars[d] = t[i]
DigitsOf(t) == [i \in 1..Len(t) |-> DigitVal(t[i])]

\* The number a text of digits denotes, as a Big.
BigOfText(t) == BigNorm(DigitsOf(t))

\* A blank line: empty or whitespace only.
IsBlank(line) == \A i \in 1..Len(line) : IsSpace(line[i])

StartsWith(t, p) == Len(t) >= Len(p) /\ SubSeq(t, 1, Len(p)) = p
Contains(t, p) ==
    \E i \in 1..(Len(t) - Len(p) + 1) : SubSeq(t, i, i + Len(p) - 1) = p

\* The least element of a set of integers, or otherwise when it is empty.
MinOf(S, otherwise) ==
    IF S = {} THEN otherwise ELSE CHOOSE i \in S : \A j \in S : i <= j

\* The position of the first c in t, or 0.
IndexOf(t, c) == MinOf({i \in 1..Len(t) : t[i] = c}, 0)

RECURSIVE Split(_, _)
\* The pieces of t around the separator at position i (none when i = 0).
SplitAt(t, c, i) ==
    IF i = 0 THEN <<t>>
    ELSE <<SubSeq(t, 1, i - 1)>> \o Split(SubSeq(t, i + 1, Len(t)), c)

\* str::split(c): the pieces of t between the occurrences of c.
Split(t, c) == SplitAt(t, c, IndexOf(t, c))

\* The lines of a text.
Lines(t) == Split(t, NL)

RECURSIVE Tokens(_)
\* The first token of t, which ends before position e, and the tokens after.
TokensAt(t, e) == <<SubSeq(t, 1, e - 1)>> \o Tokens(SubSeq(t, e, Len(t)))

\* The whitespace-separated tokens of a line.
Tokens(t) ==
    IF t = <<>> THEN <<>>
    ELSE IF IsSpace(t[1]) THEN Tokens(Tail(t))
    ELSE TokensAt(t, MinOf({i \in 1..Len(t) : IsSpace(t[i])}, Len(t) + 1))

\* The index of the first blank line at or after i, or Len(ls) + 1.
BlockEnd(ls, i) == MinOf({j \in i..Len(ls) : IsBlank(ls[j])}, Len(ls) + 1)

\* The index of the first non-blank line at or after i, or Len(ls) + 1.
SkipBlank(ls, i) == MinOf({j \in i..Len(ls) : ~IsBlank(ls[j])}, Len(ls) + 1)

\* The lines of a block after its first line i, up to the blank line.
FollowingLines(ls, i) == SubSeq(ls, i + 1, BlockEnd(ls, i + 1) - 1)

\* Section 4.1, timestamp: the digit groups, checked and converted.  The
\* hour group is one or more digits, the others are of fixed width.
TimestampOfGroups(t, hh, mm, ss, ms) ==
    IF ~(AllDigits(hh) /\ AllDigits(mm) /\ AllDigits(ss) /\ AllDigits(ms))
    THEN Fail("MalformedTimestamp", t)
    ELSE IF Len(mm) # 2 \/ Len(ss) # 2 \/ Len(ms) # 3
    THEN Fail("MalformedTimestamp", t)
    ELSE IF BigLess(U32Max, BigOfText(hh)) THEN Fail("MalformedTimestamp", t)
    ELSE Ok(VttTimestamp(BigOfText(hh), BigToNat(DigitsOf(mm)),
                         BigToNat(DigitsOf(ss)), BigToNat(DigitsOf(ms))))

\* A variant of TimestampOfParts that takes the long form only.
TimestampOfPartsLongOnly(t, parts, rest) ==
    IF Len(parts) # 3 \/ Len(rest) # 2
    THEN Fail("MalformedTimestamp", t)
    ELSE TimestampOfGroups(t, parts[1], parts[2], rest[1], rest[2])

\* parts: t split at ':'; rest: its last part split at '.'.  Three parts
\* are H+:MM:SS.mmm; two are the short form MM:SS.mmm, with hours 0.
TimestampOfParts(t, parts, rest) ==
    IF Len(parts) \notin {2, 3} \/ Len(rest) # 2
    THEN Fail("MalformedTimestamp", t)
    ELSE TimestampOfGroups(t, IF Len(parts) = 3 THEN parts[1] ELSE <<"0">>,
                           parts[Len(parts) - 1], rest[1], rest[2])

\* The text after the last ':' of t.
AfterColons(t) == Split(t, ":")[Len(Split(t, ":"))]

\* Section 4.1, timestamp.
ParseTimestamp(t) == TimestampOfParts(t, Split(t, ":"), Split(AfterColons(t), "."))

RECURSIVE StripZeros(_)
\* A digit sequence without its trailing zeros.
StripZeros(ds) ==
    IF ds # <<>> /\ ds[Len(ds)] = 0
    THEN StripZeros(SubSeq(ds, 1, Len(ds) - 1)) ELSE ds

PercentMax == 100

\* The range check of section 3: the value lies in [0, 100].
PercentageOfDigits(t, whole, frac) ==
    IF BigLess(NatDigits(PercentMax), whole)
           \/ (whole = NatDigits(PercentMax) /\ frac # <<>>)
    THEN Fail("MalformedPercentage", t)
    ELSE Ok(Percentage(BigToNat(whole), frac))

\* parts: the number before the '%', split at '.'.
PercentageOfParts(t, parts) ==
    IF t = <<>> \/ t[Len(t)] # "%" THEN Fail("MalformedPercentage", t)
    ELSE IF Len(parts) > 2 \/ ~AllDigits(parts[1])
    THEN Fail("MalformedPercentage", t)
    ELSE IF Len(parts) = 2 /\ ~AllDigits(parts[2])
    THEN Fail("MalformedPercentage", t)
    ELSE PercentageOfDigits(t, BigOfText(parts[1]),
                            IF Len(parts) = 2
                            THEN StripZeros(DigitsOf(parts[2])) ELSE <<>>)

\* Section 4.1, percentage: a decimal number immediately followed by '%'.
ParsePercentage(t) ==
    PercentageOfParts(t, Split(SubSeq(t, 1, Len(t) - 1), "."))

I32Max == Chars("2147483647")

\* The digits ds with the given sign, as an i32.
SignedNumber(t, ds, sign) ==
    IF ~AllDigits(ds) THEN Fail("MalformedNumber", t)
    ELSE IF BigLess(DigitsOf(I32Max), BigOfText(ds))
    THEN Fail("MalformedNumber", t)
    ELSE Ok(sign * BigToNat(BigOfText(ds)))

\* A signed line number (i32).
ParseLineNumber(t) ==
    IF t # <<>> /\ t[1] = "-"
    THEN SignedNumber(t, Tail(t), 0 - 1)
    ELSE SignedNumber(t, t, 1)

\* An unsigned count (u32), kept as a Big.
ParseU32(t) ==
    IF ~AllDigits(t) THEN Fail("MalformedNumber", t)
    ELSE IF BigLess(U32Max, BigOfText(t)) THEN Fail("MalformedNumber", t)
    ELSE Ok(BigOfText(t))

\* Section 4.1, small enumerations: an exact literal match.  table is a
\* sequence of <<literal, value>> pairs.
ParseEnum(t, table, field) ==
    IF \E i \in 1..Len(table) : table[i][1] = t
    THEN Ok(table[CHOOSE i \in 1..Len(table) : table[i][1] = t][2])
    ELSE Fail("UnknownEnumValue", field \o <<":">> \o t)

VerticalTable == <<<<Chars("rl"), "Rl">>, <<Chars("lr"), "Lr">>>>
LineAlignmentTable ==
    <<<<Chars("start"), "Start">>, <<Chars("center"), "Center">>, <<Chars("end"), "End">>>>
PositionAlignmentTable ==
    <<<<Chars("line-left"), "LineLeft">>, <<Chars("center"), "Center">>,
      <<Chars("line-right"), "LineRight">>>>
AlignmentTable ==
    <<<<Chars("start"), "Start">>, <<Chars("center"), "Center">>, <<Chars("end"), "End">>,
      <<Chars("left"), "Left">>, <<Chars("right"), "Right">>>>
ScrollTable == <<<<Chars("up"), "Up">>>>

\* The optional ",alignment" suffix of a line or position value.
ParseSuffix(parts, table, field) ==
    IF Len(parts) = 1 THEN Ok(None)
    ELSE IF ParseEnum(parts[2], table, field).ok
    THEN Ok(Some(ParseEnum(parts[2], table, field).val))
    ELSE ParseEnum(parts[2], table, field)

\* A Line of the given kind from its parsed value and alignment.
LineOf(kind, v, a) ==
    IF ~v.ok THEN v ELSE IF ~a.ok THEN a
    ELSE Ok([kind |-> kind, value |-> v.val, align |-> a.val])

\* Section 4.2, the value of `line`: the percentage form when the value
\* carries a '%', an integer line number otherwise.
LineOfParts(t, parts) ==
    IF Len(parts) > 2 THEN Fail("MalformedNumber", t)
    ELSE IF parts[1] # <<>> /\ parts[1][Len(parts[1])] = "%"
    THEN LineOf("Percentage", ParsePercentage(parts[1]),
                ParseSuffix(parts, LineAlignmentTable, Chars("line")))
    ELSE LineOf("LineNumber", ParseLineNumber(parts[1]),
                ParseSuffix(parts, LineAlignmentTable, Chars("line")))

ParseLine(t) == LineOfParts(t, Split(t, ","))

PositionOf(p, a) ==
    IF ~p.ok THEN p ELSE IF ~a.ok THEN a ELSE Ok(Position(p.val, a.val))

PositionOfParts(t, parts) ==
    IF Len(parts) > 2 THEN Fail("MalformedPercentage", t)
    ELSE PositionOf(ParsePercentage(parts[1]),
                    ParseSuffix(parts, PositionAlignmentTable, Chars("position")))

\* Section 4.2, the value of `position`.
ParsePosition(t) == PositionOfParts(t, Split(t, ","))

AnchorOf(x, y) ==
    IF ~x.ok THEN x ELSE IF ~y.ok THEN y ELSE Ok(Anchor(x.val, y.val))

AnchorOfParts(t, parts) ==
    IF Len(parts) # 2 THEN Fail("MalformedPercentage", t)
    ELSE AnchorOf(ParsePercentage(parts[1]), ParsePercentage(parts[2]))

\* An anchor: two percentages separated by a comma.
ParseAnchor(t) == AnchorOfParts(t, Split(t, ","))

\* The key and the value of a "key:value" token, split at the first colon.
KeyOf(tok) == SubSeq(tok, 1, IndexOf(tok, ":") - 1)
ValueOf(tok) == SubSeq(tok, IndexOf(tok, ":") + 1, Len(tok))

\* Section 4.2: the value of one settings token; an unknown key fails.
SettingValue(key, val) ==
    CASE key = Chars("vertical") -> ParseEnum(val, VerticalTable, Chars("vertical"))
      [] key = Chars("line") -> ParseLine(val)
      [] key = Chars("position") -> ParsePosition(val)
      [] key = Chars("size") -> ParsePercentage(val)
      [] key = Chars("align") -> ParseEnum(val, AlignmentTable, Chars("align"))
      [] key = Chars("region") -> Ok(val)
      [] OTHER -> Fail("UnrecognizedSettingKey", key)

\* The CueSettings field a key sets.
SettingField(key) ==
    CASE key = Chars("vertical") -> "vertical"
      [] key = Chars("line") -> "line"
      [] key = Chars("position") -> "position"
      [] key = Chars("size") -> "size"
      [] key = Chars("align") -> "align"
      [] key = Chars("region") -> "region"

RECURSIVE ParseSettings(_, _)
\* The settings after the first token, whose key and parsed value are given:
\* the field is set (again, if it was set: the last occurrence wins).
SettingsAfter(toks, acc, key, r) ==
    IF ~r.ok THEN r
    ELSE ParseSettings(Tail(toks),
                       [acc EXCEPT ![SettingField(key)] = Some(r.val)])

\* Section 4.2: the settings tokens, left to right.
ParseSettings(toks, acc) ==
    IF toks = <<>> THEN Ok(acc)
    ELSE IF IndexOf(toks[1], ":") = 0 THEN Fail("UnrecognizedSettingKey", toks[1])
    ELSE SettingsAfter(toks, acc, KeyOf(toks[1]),
                       SettingValue(KeyOf(toks[1]), ValueOf(toks[1])))

\* The timing line's value from its parsed parts; settings are present
\* when at least one token follows the end timestamp.
TimingOf(s, e, st, hasSettings) ==
    IF ~s.ok THEN s ELSE IF ~e.ok THEN e ELSE IF ~st.ok THEN st
    ELSE Ok([timings |-> VttTimings(s.val, e.val),
             settings |-> IF hasSettings THEN Some(st.val) ELSE None])

TimingOfTokens(line, toks) ==
    IF Len(toks) < 3 THEN Fail("MalformedTimestamp", line)
    ELSE IF toks[2] # KwArrow THEN Fail("MissingTimingLine", line)
    ELSE TimingOf(ParseTimestamp(toks[1]), ParseTimestamp(toks[3]),
                  ParseSettings(SubSeq(toks, 4, Len(toks)), CueSettingsDefault),
                  Len(toks) > 3)

\* Section 4.3, the timing line "<start> --> <end> [settings]".
ParseTimingLine(line) == TimingOfTokens(line, Tokens(line))

\* A successful block parse: the block and the index of the next line.
Parsed(b, next) == [ok |-> TRUE, val |-> b, next |-> next]

\* The cue from its identifier, its parsed timing line, and its payload
\* lines from..stop-1.
CueOf(ls, id, tl, from, stop) ==
    IF ~tl.ok THEN tl
    ELSE Parsed(VttBlock("Que", VttCue(id, tl.val.timings, tl.val.settings,
                                       SubSeq(ls, from, stop - 1))),
                stop)

\* The cue whose timing line must be line t.
CueAt(ls, id, t) ==
    IF t > Len(ls) THEN Fail("MissingTimingLine", <<>>)
    ELSE IF ~Contains(ls[t], KwArrow) THEN Fail("MissingTimingLine", ls[t])
    ELSE CueOf(ls, id, ParseTimingLine(ls[t]), t + 1, BlockEnd(ls, t + 1))

\* A variant of ParseCue that takes the line as the timing line always.
ParseCueTimingOnly(ls, i) == CueAt(ls, None, i)

\* Section 4.3, cue block, starting at line i: the line is the timing line
\* when it contains "-->", else the identifier, followed by the timing line.
ParseCue(ls, i) ==
    IF Contains(ls[i], KwArrow)
    THEN CueAt(ls, None, i)
    ELSE CueAt(ls, Some(ls[i]), i + 1)

\* The text that follows a keyword on its line, after the first space.
AfterKeyword(line, kw) == SubSeq(line, Len(kw) + 2, Len(line))

\* Side/Below text after a keyword (the comment and the header description
\* share this shape): <<kind, text>>.  more: the lines after the first.
SideOrBelow(line, kw, more) ==
    IF IsBlank(SubSeq(line, Len(kw) + 1, Len(line)))
    THEN <<"Below", Join(more, <<NL>>)>>
    ELSE <<"Side", Join(<<AfterKeyword(line, kw)>> \o more, <<NL>>)>>

\* Section 4.3, comment block.
ParseComment(ls, i) ==
    Parsed(VttBlock("Comment",
                    VttComment(SideOrBelow(ls[i], KwNote, FollowingLines(ls, i))[1],
                               SideOrBelow(ls[i], KwNote, FollowingLines(ls, i))[2])),
           BlockEnd(ls, i + 1))

\* Section 4.3, style block.
ParseStyle(ls, i) ==
    Parsed(VttBlock("Style", VttStyle(Join(FollowingLines(ls, i), <<NL>>))),
           BlockEnd(ls, i + 1))

\* Section 4.3: the value of one region line; an unknown key fails.
RegionValue(key, val) ==
    CASE key = Chars("id") -> Ok(val)
      [] key = Chars("width") -> ParsePercentage(val)
      [] key = Chars("lines") -> ParseU32(val)
      [] key = Chars("regionanchor") -> ParseAnchor(val)
      [] key = Chars("viewportanchor") -> ParseAnchor(val)
      [] key = Chars("scroll") -> ParseEnum(val, ScrollTable, Chars("scroll"))
      [] OTHER -> Fail("UnrecognizedRegionKey", key)

\* The VttRegion field a key sets.
RegionField(key) ==
    CASE key = Chars("id") -> "id"
      [] key = Chars("width") -> "width"
      [] key = Chars("lines") -> "lines"
      [] key = Chars("regionanchor") -> "region_anchor"
      [] key = Chars("viewportanchor") -> "viewport_anchor"
      [] key = Chars("scroll") -> "scroll"

RECURSIVE ParseRegionLines(_, _)
\* A variant of RegionAfter that ignores a line it cannot read.
RegionAfterIgnoring(ls, acc, key, r) ==
    IF ~r.ok THEN ParseRegionLines(Tail(ls), acc)
    ELSE ParseRegionLines(Tail(ls),
                          [acc EXCEPT ![RegionField(key)] = Some(r.val)])

\* The loop over the region's lines after one line: a failure ends it, a
\* value is stored in the field of its key.
RegionAfter(ls, acc, key, r) ==
    IF ~r.ok THEN r
    ELSE ParseRegionLines(Tail(ls),
                          [acc EXCEPT ![RegionField(key)] = Some(r.val)])

\* The key:value lines of a region, in any order.
ParseRegionLines(ls, acc) ==
    IF ls = <<>> THEN Ok(acc)
    ELSE IF IndexOf(ls[1], ":") = 0 THEN Fail("UnrecognizedRegionKey", ls[1])
    ELSE RegionAfter(ls, acc, KeyOf(ls[1]),
                     RegionValue(KeyOf(ls[1]), ValueOf(ls[1])))

RegionOf(r, stop) ==
    IF ~r.ok THEN r ELSE Parsed(VttBlock("Region", r.val), stop)

\* Section 4.3, region block.
ParseRegion(ls, i) ==
    RegionOf(ParseRegionLines(FollowingLines(ls, i), VttRegionDefault),
             BlockEnd(ls, i + 1))

\* Whether a line opens a block of the given keyword: the keyword alone,
\* or followed by whitespace.
OpensWith(line, kw) ==
    StartsWith(line, kw) /\ (Len(line) = Len(kw) \/ IsSpace(line[Len(kw) + 1]))

\* The keyword alone on its line.
Alone(line, kw) ==
    StartsWith(line, kw) /\ IsBlank(SubSeq(line, Len(kw) + 1, Len(line)))

\* Section 4.3, block-kind dispatch on the first non-blank line; a cue is
\* the fallback.
ParseBlock(ls, i) ==
    CASE OpensWith(ls[i], KwNote) -> ParseComment(ls, i)
      [] Alone(ls[i], KwStyle) -> ParseStyle(ls, i)
      [] Alone(ls[i], KwRegion) -> ParseRegion(ls, i)
      [] OTHER -> ParseCue(ls, i)

\* A variant of BlocksAfter that recovers from a failed block with the
\* blocks parsed before it.
BlocksAfterRecovering(ls, b, acc) == Ok(acc)

RECURSIVE ParseBlocks(_, _, _)
\* The loop after one block parse: a failure ends the parse, a block is
\* appended and the loop continues after it.
BlocksAfter(ls, b, acc) ==
    IF ~b.ok THEN Err(b.err)
    ELSE ParseBlocks(ls, b.next, Append(acc, b.val))

\* The loop at the first non-blank line j: the end of the input ends it.
BlocksFrom(ls, j, acc) ==
    IF j > Len(ls) THEN Ok(acc) ELSE BlocksAfter(ls, ParseBlock(ls, j), acc)

\* Section 4.4, the main loop: skip blank lines; stop at the end of the
\* input; otherwise parse one block, append it and continue.
ParseBlocks(ls, i, acc) == BlocksFrom(ls, SkipBlank(ls, i), acc)

HeaderOf(sb, stop) ==
    Parsed(VttHeader(IF sb[2] = <<>> THEN None
                     ELSE Some(VttDescription(sb[1], sb[2]))),
           stop)

\* Section 4.4, the header line and its optional description.
ParseHeader(ls) ==
    IF ~OpensWith(ls[1], KwWebVtt)
    THEN Fail(IF ls = <<<<>>>> THEN "UnexpectedEndOfInput" ELSE "MissingHeader",
              ls[1])
    ELSE HeaderOf(SideOrBelow(ls[1], KwWebVtt, FollowingLines(ls, 1)),
                  BlockEnd(ls, 2))

DocumentOf(h, bs) == IF ~bs.ok THEN bs ELSE Ok(WebVtt(h, bs.val))

DocumentAfter(ls, h) ==
    IF ~h.ok THEN Err(h.err)
    ELSE DocumentOf(h.val, ParseBlocks(ls, h.next, <<>>))

\* WebVtt::parse (crate::vtt_parser::vtt)
Parse(text) == DocumentAfter(Lines(text), ParseHeader(Lines(text)))

-----------------------------------------------------------------------------
(* The values the model builds documents from *)

TxtA == <<"a">>
TxtB == <<"b">>
TxtId == Chars("id")
TxtTwoLines == Chars("a\nb")
TxtEmpty == <<>>

Ts1 == VttTimestamp(<<0>>, 0, 1, 0)
Ts4 == VttTimestamp(<<0>>, 0, 4, 0)
TsLong == VttTimestamp(<<1, 0, 0>>, 59, 59, 999)
TsWide == VttTimestamp(<<1>>, 60, 4, 1000)

Pct50 == Percentage(50, <<>>)
PctHalf == Percentage(50, <<5>>)
Pct0 == Percentage(0, <<>>)
Pct100 == Percentage(100, <<>>)
PctQuarter == Percentage(12, <<2, 5>>)
PctSmall == Percentage(0, <<0, 5>>)

SettingsFull ==
    CueSettings(Some("Lr"), Some(LinePercentage(Pct100, Some("Center"))),
                Some(Position(Pct50, Some("Center"))), Some(Pct50),
                Some("Center"), Some(TxtId))

SettingsNumber ==
    CueSettings(Some("Rl"), Some(LineNumber(0 - 1, None)),
                Some(Position(PctHalf, None)), None, Some("Left"), None)

\* One settings value per field, with only that field set.
SettingsSingle ==
    {[CueSettingsDefault EXCEPT ![f] = SettingsFull[f]] :
        f \in {"vertical", "line", "position", "size", "align", "region"}}

Cue(id, s, p) == VttBlock("Que", VttCue(id, VttTimings(Ts1, Ts4), s, p))

\* The blocks that documents of several blocks are built from.
SeqBlocks ==
    { Cue(None, None, <<TxtA>>),
      VttBlock("Que", VttCue(Some(TxtId), VttTimings(Ts4, TsLong),
                             Some(SettingsFull), <<TxtA, TxtB>>)),
      Cue(None, None, <<>>),
      VttBlock("Comment", VttComment("Side", TxtA)),
      VttBlock("Style", VttStyle(TxtTwoLines)),
      VttBlock("Region", VttRegion(Some(TxtId), Some(Pct50), None, None,
                                   None, None)) }

\* The blocks that one-block documents are built from.
SingleBlocks ==
    SeqBlocks
    \cup {Cue(None, Some(s), <<TxtA>>) : s \in SettingsSingle}
    \cup { Cue(None, Some(SettingsNumber), <<TxtB>>),
           Cue(None, Some(CueSettingsDefault), <<TxtA>>),
           Cue(None, None, <<TxtEmpty>>),
           Cue(None, None, <<TxtTwoLines>>),
           Cue(Some(KwNote), None, <<TxtA>>),
           VttBlock("Que", VttCue(None, VttTimings(TsWide, TsLong), None,
                                  <<TxtA>>)),
           VttBlock("Que", VttCue(None, VttTimings(Ts1,
                                      VttTimestamp(U32Max, 0, 0, 0)), None,
                                  <<TxtA>>)),
           VttBlock("Comment", VttComment("Below", TxtTwoLines)),
           VttBlock("Comment", VttComment("Side", TxtTwoLines)),
           VttBlock("Comment", VttComment("Side", TxtEmpty)),
           VttBlock("Comment", VttComment("Below", TxtEmpty)),
           VttBlock("Style", VttStyle(TxtEmpty)),
           VttBlock("Region", VttRegionDefault),
           VttBlock("Region",
                    VttRegion(Some(TxtId), Some(PctHalf), Some(<<3>>),
                              Some(Anchor(Pct0, Pct100)),
                              Some(Anchor(PctQuarter, Pct50)), Some("Up"))) }

Headers ==
    { VttHeader(None),
      VttHeader(Some(VttDescription("Side", TxtA))),
      VttHeader(Some(VttDescription("Below", TxtA))),
      VttHeader(Some(VttDescription("Below", TxtTwoLines))),
      VttHeader(Some(VttDescription("Side", TxtEmpty))) }

\* The longest block sequence a multi-block document is built with.
MaxBlocks == 2

\* How many next() calls the model makes after the iterator is exhausted.
MaxExtraNext == 2

RECURSIVE SeqsUpTo(_, _)
\* The sequences over S of length at most n.
SeqsUpTo(S, n) ==
    IF n = 0 THEN {<<>>}
    ELSE LET shorter == SeqsUpTo(S, n - 1)
         IN  shorter \cup {Append(q, x) : q \in shorter, x \in S}

BlockSeqs == SeqsUpTo(SeqBlocks, MaxBlocks) \cup {<<b>> : b \in SingleBlocks}

-----------------------------------------------------------------------------
(* The texts the model hands to WebVtt::parse *)

\* the module documentation's example, payloads shortened
InCanonical ==
    Chars("WEBVTT\n\n")
    \o Chars("00:00:01.000 --> 00:00:04.000\n- N\n\n")
    \o Chars("00:00:05.000 --> 00:00:09.000\n- I\n")
    \o Chars("- Y\n")

\* test::parse's fixture (MM:SS.mmm timestamps), payloads shortened
InShort ==
    Chars("WEBVTT\n\n00:01.000 --> 00:04.000\n")
    \o Chars("- N\n\n00:05.000 --> 00:09.000\n- I\n")
    \o Chars("- Y\n")

\* one-digit hours and no newline at the end
InNoFinalNewline ==
    Chars("WEBVTT\n\n1:00:01.000 --> 2:00:04.000\n")
    \o Chars("a")

\* several blank lines between blocks
InExtraBlank ==
    Chars("WEBVTT\n\n\n\nNOTE\na\nb\n\n\n\nSTYLE\n")
    \o Chars("a\n\n\n")

\* settings out of order, a key given twice, padded decimals
InSettings ==
    Chars("WEBVTT a\n\nid\n")
    \o Chars("00:00:01.000 --> 00:00:04.000 region:id align:center ")
    \o Chars("size:50.0% size:12.250% line:-1,end position:50.5%\n")
    \o Chars("a\n")

\* extra spaces on the timing line
InSpaces ==
    Chars("WEBVTT\n\n")
    \o Chars("00:00:01.000   -->   00:00:04.000   \n")
    \o Chars("a\n")

\* a description below the marker and a region in any key order
InRegion ==
    Chars("WEBVTT\na\nb\n\nREGION\nscroll:up\n")
    \o Chars("id:id\nlines:03\nwidth:50%\n")
    \o Chars("regionanchor:0%,100%\n")
    \o Chars("viewportanchor:12.25%,50%\n")

\* a marker and a NOTE followed by spaces only
InNotes ==
    Chars("WEBVTT \n\nNOTE \na\n\nNOTE  a\n")

\* the marker alone
InHeaderOnly ==
    Chars("WEBVTT")

\* cues without payload
InEmptyCues ==
    Chars("WEBVTT\n\n")
    \o Chars("00:00:01.000 --> 00:00:04.000\n\n")
    \o Chars("00:00:01.000 --> 00:00:04.000\n")

\* section 8: one dash missing
InBadArrow ==
    Chars("WEBVTT\n\n")
    \o Chars("00:00:01.000 -> 00:00:04.000\na\n")

\* section 8: an unrecognized region key
InBadRegionKey ==
    Chars("WEBVTT\n\nREGION\nid:id\nfoo:bar\n")

\* a one-digit minutes group
InBadTimestamp ==
    Chars("WEBVTT\n\n")
    \o Chars("00:00:01.000 --> 00:0:04.000\na\n")

\* an unknown settings key
InBadSetting ==
    Chars("WEBVTT\n\n")
    \o Chars("00:00:01.000 --> 00:00:04.000 foo:bar\n")
    \o Chars("a\n")

\* an unknown alignment
InBadEnum ==
    Chars("WEBVTT\n\n")
    \o Chars("00:00:01.000 --> 00:00:04.000 align:middle\n")
    \o Chars("a\n")

\* a percentage above 100
InBadPercentage ==
    Chars("WEBVTT\n\n")
    \o Chars("00:00:01.000 --> 00:00:04.000 size:150%\n")
    \o Chars("a\n")

\* a malformed block between well-formed ones
InBadLater ==
    Chars("WEBVTT\n\n")
    \o Chars("00:00:01.000 --> 00:00:04.000\na\n\n")
    \o Chars("REGION\nfoo:bar\n\nNOTE a\n")

\* the empty text
InEmpty ==
    <<>>

\* no marker
InNoHeader ==
    Chars("00:00:01.000 --> 00:00:04.000\na\n")

\* Texts of cues in the form of the module documentation's example: a
\* timing line of HH:MM:SS.mmm timestamps and one or two payload lines.
CanonicalCues ==
    {tl \o <<NL>> \o pl \o <<NL>> :
        tl \in {Chars("00:00:01.000 --> 00:00:04.000"),
                Chars("12:34:56.789 --> 99:59:59.999"),
                Chars("00:00:05.000 --> 00:00:09.000")},
        pl \in {Chars("- N"), Chars("- I\n- Y")}}

\* The marker, a blank line, and one or two such cues with a blank line
\* between them.
CanonicalInputs ==
    {Chars("WEBVTT\n\n") \o c : c \in CanonicalCues}
    \cup {Chars("WEBVTT\n\n") \o c1 \o <<NL>> \o c2 :
             c1 \in CanonicalCues, c2 \in CanonicalCues}

\* Timestamps in the short form MM:SS.mmm.
ShortStamps ==
    {Chars("00:01.000"), Chars("00:04.000"), Chars("59:59.999"),
     Chars("12:34.567")}

\* A document of one cue from a to b.
TimedInput(a, b) ==
    Chars("WEBVTT\n\n") \o a \o <<SP>> \o KwArrow \o <<SP>> \o b
        \o Chars("\n- N\n")

\* The same timestamp with the hours written out as 00.
LongOf(a) == Chars("00:") \o a

ShortInputs == {TimedInput(a, b) : a \in ShortStamps, b \in ShortStamps}

\* Malformed blocks, each with the kind of error it is rejected with.
BadBlocks ==
    <<<<Chars("00:00:01.000 -> 00:00:04.000\na\n"), "MissingTimingLine">>,
      <<Chars("REGION\nid:id\nfoo:bar\n"), "UnrecognizedRegionKey">>,
      <<Chars("00:00:01.000 --> 00:0:04.000\na\n"), "MalformedTimestamp">>,
      <<Chars("00:00:01.000 --> 00:00:04.000 foo:bar\na\n"),
        "UnrecognizedSettingKey">>,
      <<Chars("00:00:01.000 --> 00:00:04.000 align:middle\na\n"),
        "UnknownEnumValue">>,
      <<Chars("00:00:01.000 --> 00:00:04.000 size:150%\na\n"),
        "MalformedPercentage">>>>

\* Well-formed blocks before a block, each followed by a blank line.
GoodBefore ==
    <<<<>>, Chars("00:00:01.000 --> 00:00:04.000\na\n\n"),
      Chars("NOTE a\n\nid\n00:00:01.000 --> 00:00:04.000\na\n\n")>>

\* Well-formed blocks after a block, each after a blank line.
GoodAfter ==
    <<<<>>, Chars("\nNOTE a\n"),
      Chars("\n00:00:05.000 --> 00:00:09.000\nb\n\nSTYLE\na\n")>>

\* The number of blocks in GoodBefore[i] and in GoodAfter[i].
GoodCount == <<0, 1, 2>>

\* The document of the blocks pre, the block mid and the blocks post.
Around(pre, mid, post) == Chars("WEBVTT\n\n") \o pre \o mid \o post

\* A malformed block anywhere among well-formed ones.
MalformedInputs ==
    {Around(GoodBefore[i], BadBlocks[k][1], GoodAfter[j]) :
        i \in 1..3, k \in 1..Len(BadBlocks), j \in 1..3}

\* The well-formed blocks alone.
WellFormedInputs ==
    {Around(GoodBefore[i], <<>>, GoodAfter[j]) : i \in 1..3, j \in 1..3}

\* A timing line with one dash missing.
ArrowLine == Chars("00:00:01.000 -> 00:00:04.000")

\* Lines that are not timing lines.
NotTimingLines ==
    {Chars("a"), Chars("- N"), Chars("00:00:05.000 -> 00:00:09.000"),
     Chars("NOTE a"), Chars("00:00:05.000 00:00:09.000")}

\* Timing lines.
TimingLines ==
    {Chars("00:00:05.000 --> 00:00:09.000"),
     Chars("00:05.000 --> 00:09.000 align:start")}

\* The block of the line with the missing dash, the line next and a payload
\* line, after the blocks pre.
ArrowInput(pre, next) ==
    Around(pre, ArrowLine \o <<NL>> \o next \o Chars("\nb\n"), <<>>)

ArrowInputs ==
    {ArrowInput(GoodBefore[i], next) :
        i \in 1..3, next \in NotTimingLines \cup TimingLines}

\* Well-formed lines of a region.
RegionLines ==
    <<Chars("id:id"), Chars("width:50%"), Chars("lines:3"),
      Chars("scroll:up")>>

\* Lines whose key is not a region key.
UnknownKeyLines == {Chars("foo:bar"), Chars("size:50%"), Chars("ID:id")}

\* The lines of a sequence, each ended by a newline.
LinesText(ls) == Join(ls, <<NL>>) \o (IF ls = <<>> THEN <<>> ELSE <<NL>>)

\* A region block with the line extra after the first n of RegionLines,
\* between the blocks pre and post.
RegionInput(pre, n, extra, post) ==
    Around(pre,
           Chars("REGION\n") \o LinesText(SubSeq(RegionLines, 1, n))
               \o LinesText(extra)
               \o LinesText(SubSeq(RegionLines, n + 1, Len(RegionLines))),
           post)

RegionInputs ==
    {RegionInput(GoodBefore[i], n, extra, GoodAfter[j]) :
        i \in 1..2, n \in 0..Len(RegionLines),
        extra \in {<<u>> : u \in UnknownKeyLines} \cup {<<>>}, j \in 1..2}

Inputs ==
    CanonicalInputs \cup ShortInputs \cup MalformedInputs
    \cup WellFormedInputs \cup ArrowInputs \cup RegionInputs \cup
    {InCanonical, InShort, InNoFinalNewline, InExtraBlank,
     InSettings, InSpaces, InRegion, InNotes,
     InHeaderOnly, InEmptyCues, InBadArrow, InBadRegionKey,
     InBadTimestamp, InBadSetting, InBadEnum, InBadPercentage,
     InBadLater, InEmpty, InNoHeader}

-----------------------------------------------------------------------------
(* The document: construction, parse, render and draining iteration *)

Self == WebVtt(header, blocks)

DocIdle ==
    /\ header = VttHeaderDefault
    /\ blocks = <<>>
    /\ orig = <<>>
    /\ input = None
    /\ parsed = None
    /\ rendered = None
    /\ yielded = <<>>
    /\ cursor = 0

ShowIdle == subject = None /\ shown = None /\ assigned = <<>>
TimeIdle ==
    /\ stamp = VttTimestampDefault
    /\ stamp2 = None
    /\ dur = None
    /\ converted = None
    /\ ordering = None
    /\ panicked = FALSE
    /\ back = None

\* A document built by the caller (WebVtt { header, blocks }).
Init ==
    /\ op = "new"
    /\ header \in Headers
    /\ blocks \in BlockSeqs
    /\ orig = blocks
    /\ input = None
    /\ parsed = None
    /\ rendered = None
    /\ yielded = <<>>
    /\ cursor = 0
    /\ ShowIdle
    /\ TimeIdle

\* Whether the caller holds a document: it built one, or the parse it called
\* returned Ok.
HasDocument == IF parsed = None THEN TRUE ELSE Unwrap(parsed).ok

\* let vtt = WebVtt::parse(text): an associated function without receiver,
\* so the model calls it where no document was built (the empty document
\* stands for none) and before any method; on success its result is the
\* document, on failure there is no document to call a method on.
DoParse(text) ==
    /\ op = "new"
    /\ header = VttHeaderDefault
    /\ blocks = <<>>
    /\ LET r == Parse(text)
       IN  /\ parsed' = Some(r)
           /\ header' = IF r.ok THEN r.val.header ELSE header
           /\ blocks' = IF r.ok THEN r.val.blocks ELSE blocks
           /\ orig' = IF r.ok THEN r.val.blocks ELSE orig
    /\ input' = Some(text)
    /\ op' = "parse"
    /\ UNCHANGED <<rendered, yielded, cursor, showVars, timeVars>>

\* A variant of render that takes the blocks out of the document it writes.
DoRenderDraining ==
    /\ HasDocument
    /\ rendered' = Some(Render(Self))
    /\ blocks' = <<>>
    /\ op' = "render"
    /\ UNCHANGED <<header, orig, input, parsed, yielded, cursor, showVars,
                   timeVars>>

\* vtt.render()
DoRender ==
    /\ HasDocument
    /\ rendered' = Some(Render(Self))
    /\ op' = "render"
    /\ UNCHANGED <<header, blocks, orig, input, parsed, yielded, cursor,
                   showVars, timeVars>>

\* vtt.next()
DoNext ==
    /\ HasDocument
    /\ Len(yielded) < Len(orig) + MaxExtraNext
    /\ LET r == IteratorNext(blocks)
       IN  /\ yielded' = Append(yielded, r[1])
           /\ blocks' = r[2]
    /\ op' = "next"
    /\ UNCHANGED <<header, orig, input, parsed, rendered, cursor, showVars,
                   timeVars>>

Next ==
    \/ \E text \in Inputs : DoParse(text)
    \/ DoRender
    \/ DoNext

Spec == Init /\ [][Next]_vars

-----------------------------------------------------------------------------
(* Display: one value of the data model, built by the caller and shown *)

FieldOrder == <<"vertical", "line", "position", "size", "align", "region">>

\* The values the caller assigns to a CueSettings field.
FieldValues(f) ==
    CASE f = "vertical" -> {"Rl", "Lr"}
      [] f = "line" -> {LinePercentage(Pct100, Some("Center")),
                        LineNumber(0 - 1, None)}
      [] f = "position" -> {Position(Pct50, Some("LineLeft"))}
      [] f = "size" -> {PctHalf}
      [] f = "align" -> {"Start"}
      [] f = "region" -> {TxtId}

PercentWholes == {0, 1, 50, 99, 100}
PercentFracs == {<<>>, <<5>>, <<2, 5>>, <<0, 5>>, <<0, 0, 1>>}

\* The percentages in [0, 100].
PercentPool ==
    {Percentage(w, f) : w \in PercentWholes \ {100}, f \in PercentFracs}
    \cup {Pct100}

StampHours == {<<0>>, <<1>>, <<9, 9>>, <<1, 0, 0>>, U32Max}
StampMinutes == {0, 2, 59, 60, 255}
StampSeconds == {0, 1, 4, 59, 255}
StampMillis == {0, 4, 500, 999, 1000, 4294, 4295, 65535}

\* Timestamps over the whole range of each field.
Stamps ==
    {VttTimestamp(h, m, s, ms) :
        h \in StampHours, m \in StampMinutes, s \in StampSeconds,
        ms \in StampMillis}

CuePool ==
    {VttCue(id, t, s, p) :
        id \in {None, Some(TxtId)},
        t \in {VttTimings(Ts1, Ts4), VttTimings(Ts4, TsLong)},
        s \in {None, Some(CueSettingsDefault), Some(SettingsFull),
               Some(SettingsNumber)}
              \cup {Some(x) : x \in SettingsSingle},
        p \in {<<>>, <<TxtA>>, <<TxtA, TxtB>>, <<TxtEmpty>>, <<TxtTwoLines>>}}

\* The regions of every present/absent combination of the six fields.
RegionPool ==
    {VttRegion(id, w, l, ra, va, sc) :
        id \in {None, Some(TxtId)},
        w \in {None, Some(PctHalf)},
        l \in {None, Some(<<3>>)},
        ra \in {None, Some(Anchor(Pct0, Pct100))},
        va \in {None, Some(Anchor(PctQuarter, Pct50))},
        sc \in {None, Some("Up")}}

DescriptionTexts ==
    {TxtA, TxtTwoLines, TxtEmpty, <<SP>>, Chars("\na"),
     Chars("This is a description.")}

HeaderPool ==
    {VttHeader(None)}
    \cup {VttHeader(Some(VttDescription(k, t))) :
             k \in {"Side", "Below"}, t \in DescriptionTexts}

\* Comment texts: one line, several lines, empty, and with a space or a
\* newline at either end.
CommentTexts ==
    {TxtA, TxtTwoLines, TxtEmpty, <<SP>>, <<NL>>, Chars("\na"), Chars(" a"),
     Chars("a\n\nb\n"), Chars("This is a comment.")}

CommentPool ==
    {VttComment(k, t) : k \in {"Side", "Below"}, t \in CommentTexts}

Subjects ==
    {[type |-> "VttCue", val |-> c] : c \in CuePool}
    \cup {[type |-> "VttComment", val |-> c] : c \in CommentPool}
    \cup {[type |-> "VttRegion", val |-> r] : r \in RegionPool}
    \cup {[type |-> "VttHeader", val |-> h] : h \in HeaderPool}
    \cup {[type |-> "Percentage", val |-> p] : p \in PercentPool}
    \cup {[type |-> "VttTimestamp", val |-> t] : t \in Stamps}
    \cup {[type |-> "CueSettings", val |-> CueSettingsDefault]}

\* format!("{}", x): the Display implementation of the value's type.
DisplayOf(x) ==
    CASE x.type = "VttCue" -> VttCueDisplay(x.val)
      [] x.type = "Percentage" -> PercentageDisplay(x.val)
      [] x.type = "VttTimestamp" -> VttTimestampDisplay(x.val)
      [] x.type = "CueSettings" -> CueSettingsDisplay(x.val)
      [] x.type = "VttRegion" -> VttRegionDisplay(x.val)
      [] x.type = "VttHeader" -> VttHeaderDisplay(x.val)
      [] x.type = "VttComment" -> VttCommentDisplay(x.val)

InitDisplay ==
    /\ op = "new"
    /\ subject \in Subjects
    /\ shown = None
    /\ assigned = <<>>
    /\ DocIdle
    /\ TimeIdle

\* settings.f = Some(v), on a field not assigned before
Assign(f, v) ==
    /\ subject.type = "CueSettings"
    /\ shown = None
    /\ \A i \in 1..Len(assigned) : assigned[i] # f
    /\ subject' = [subject EXCEPT !.val[f] = Some(v)]
    /\ assigned' = Append(assigned, f)
    /\ op' = "assign"
    /\ UNCHANGED <<shown, docVars, timeVars>>

\* subject.to_string()
Show ==
    /\ shown = None
    /\ shown' = Some(DisplayOf(subject))
    /\ op' = "show"
    /\ UNCHANGED <<subject, assigned, docVars, timeVars>>

NextDisplay ==
    \/ \E i \in 1..Len(FieldOrder) :
           \E v \in FieldValues(FieldOrder[i]) : Assign(FieldOrder[i], v)
    \/ Show

SpecDisplay == InitDisplay /\ [][NextDisplay]_vars

-----------------------------------------------------------------------------
(* Time: a timestamp converted to a Duration and back, and compared *)

\* The conventional ranges of the fields below hours.
Conventional(t) ==
    t.minutes <= 59 /\ t.seconds <= 59 /\ t.milliseconds <= 999

\* The timestamps a timestamp is compared with: within the conventional
\* ranges, and beyond them.
Others ==
    {VttTimestamp(h, m, s, ms) :
        h \in {<<0>>, <<1>>, U32Max}, m \in {0, 59}, s \in {1, 4, 59},
        ms \in {0, 999}}
    \cup {VttTimestamp(<<0>>, 60, 0, 0), VttTimestamp(<<0>>, 0, 255, 0),
          VttTimestamp(<<1>>, 0, 0, 1000), VttTimestamp(<<0>>, 59, 59, 4295),
          VttTimestamp(U32Max, 255, 255, 65535)}

InitTime ==
    /\ op = "new"
    /\ stamp \in Stamps
    /\ stamp2 = None
    /\ dur = None
    /\ converted = None
    /\ ordering = None
    /\ panicked = FALSE
    /\ back = None
    /\ DocIdle
    /\ ShowIdle

\* let d: Duration = stamp.into(), in a build with or without overflow checks
ToDuration(overflowChecks) ==
    /\ op = "new"
    /\ LET r == IntoDuration(stamp, overflowChecks)
       IN  /\ dur' = IF r.ok THEN Some(r.val) ELSE None
           /\ panicked' = ~r.ok
    /\ op' = "into"
    /\ UNCHANGED <<stamp, stamp2, converted, ordering, back, docVars,
                   showVars>>

\* VttTimestamp::from(d)
BackFromDuration ==
    /\ op = "into"
    /\ dur # None
    /\ converted' = Some(FromDuration(Unwrap(dur)))
    /\ op' = "from"
    /\ UNCHANGED <<stamp, stamp2, dur, ordering, panicked, back, docVars,
                   showVars>>

\* Durations up to the first one whose hours do not fit in a u32: the
\* seconds (2^32 hours is 2^32 * 3600 s) and the nanoseconds below a second.
DurationSecs ==
    {<<0>>, <<1>>, <<5, 9>>, <<6, 0>>, <<3, 5, 9, 9>>, <<3, 6, 0, 0>>,
     <<8, 6, 3, 9, 9>>,
     BigAdd(BigMulSmall(U32Max, SecsPerHour), NatDigits(SecsPerHour - 1)),
     BigAdd(BigMulSmall(U32Max, SecsPerHour), NatDigits(SecsPerHour)),
     BigAdd(BigMulSmall(U32Max, SecsPerHour), NatDigits(3 * SecsPerHour - 1)),
     U64Max}

DurationNanos ==
    {0, 1, 999999, 1000000, 1000001, 1500000, 500000000, 999000000,
     999999999}

Durations == {Duration(s, n) : s \in DurationSecs, n \in DurationNanos}

\* let t: VttTimestamp = d.into(): From<Duration> has no receiver, so the
\* model calls it where no timestamp was built (the default one stands for
\* none).
FromDur(d) ==
    /\ op = "new"
    /\ stamp = VttTimestampDefault
    /\ dur' = Some(d)
    /\ converted' = Some(FromDuration(d))
    /\ op' = "fromdur"
    /\ UNCHANGED <<stamp, stamp2, ordering, panicked, back, docVars, showVars>>

\* let d2: Duration = t.into(), for the timestamp t that FromDur returned
BackToDuration(overflowChecks) ==
    /\ op = "fromdur"
    /\ back' = Some(IntoDuration(Unwrap(converted), overflowChecks))
    /\ op' = "back"
    /\ UNCHANGED <<stamp, stamp2, dur, converted, ordering, panicked, docVars,
                   showVars>>

\* stamp.cmp(&other)
Compare(other) ==
    /\ op = "new"
    /\ stamp2' = Some(other)
    /\ ordering' = Some(VttTimestampCmp(stamp, other))
    /\ op' = "cmp"
    /\ UNCHANGED <<stamp, dur, converted, panicked, back, docVars, showVars>>

NextTime ==
    \/ \E overflowChecks \in BOOLEAN : ToDuration(overflowChecks)
    \/ BackFromDuration
    \/ \E other \in Others : Compare(other)
    \/ \E d \in Durations : FromDur(d)
    \/ \E overflowChecks \in BOOLEAN : BackToDuration(overflowChecks)

SpecTime == InitTime /\ [][NextTime]_vars

-----------------------------------------------------------------------------
(* The parser's main loop, one iteration at a time (section 4.4).  header  *)
(* is the parsed header, blocks the blocks parsed so far, cursor the index *)
(* of the next line to read, parsed the result once the loop has ended.    *)

InitLoop ==
    /\ op = "new"
    /\ DocIdle
    /\ ShowIdle
    /\ TimeIdle

\* The lines of the input of the loop.
LoopLines == Lines(Unwrap(input))

\* After the header: the loop starts at the line after it, or the parse
\* fails.
LoopHeader(h) ==
    IF h.ok
    THEN /\ header' = h.val
         /\ cursor' = h.next
         /\ op' = "loop"
         /\ parsed' = parsed
    ELSE /\ parsed' = Some(Err(h.err))
         /\ op' = "failed"
         /\ UNCHANGED <<header, cursor>>

\* WebVtt::parse(text) is called: the header is parsed.
LoopStart(text) ==
    /\ op = "new"
    /\ input' = Some(text)
    /\ LoopHeader(ParseHeader(Lines(text)))
    /\ UNCHANGED <<blocks, orig, rendered, yielded, showVars, timeVars>>

\* The end of the input at line j: the document of the blocks so far.
LoopEnd(j) ==
    /\ parsed' = Some(Ok(WebVtt(header, blocks)))
    /\ cursor' = j
    /\ op' = "done"
    /\ blocks' = blocks

\* A variant of LoopBlock that appends the block and does not move on.
LoopBlockInPlace(b) ==
    IF b.ok
    THEN /\ blocks' = Append(blocks, b.val)
         /\ op' = "loop"
         /\ UNCHANGED <<cursor, parsed>>
    ELSE /\ parsed' = Some(Err(b.err))
         /\ op' = "failed"
         /\ UNCHANGED <<blocks, cursor>>

\* After one block parse: the block is appended and the loop continues at
\* the line after it, or the parse fails.
LoopBlock(b) ==
    IF b.ok
    THEN /\ blocks' = Append(blocks, b.val)
         /\ cursor' = b.next
         /\ op' = "loop"
         /\ parsed' = parsed
    ELSE /\ parsed' = Some(Err(b.err))
         /\ op' = "failed"
         /\ UNCHANGED <<blocks, cursor>>

\* One iteration at the first non-blank line j.
LoopIter(ls, j) ==
    IF j > Len(ls) THEN LoopEnd(j) ELSE LoopBlock(ParseBlock(ls, j))

\* One iteration of the main loop: skip blank lines, then end, fail, or
\* parse one block.
LoopStep ==
    /\ op = "loop"
    /\ LoopIter(LoopLines, SkipBlank(LoopLines, cursor))
    /\ UNCHANGED <<header, orig, input, rendered, yielded, showVars, timeVars>>

NextLoop ==
    \/ \E text \in Inputs : LoopStart(text)
    \/ LoopStep

\* The parser is a sequential function: once called, its loop takes its
\* next iteration; whether the caller calls it is left open.  This is weak
\* fairness of LoopStep, WF_vars(LoopStep), which is
\* []<>(~ENABLED <<LoopStep>>_vars) \/ []<><<LoopStep>>_vars, written with
\* the guard of LoopStep for its enabling condition: an iteration is
\* possible, and changes op or cursor, exactly when op = "loop".
LoopFairness == []<>(op # "loop") \/ []<><<LoopStep>>_vars

SpecLoop == InitLoop /\ [][NextLoop]_vars /\ LoopFairness

-----------------------------------------------------------------------------
(* Properties of the document (specification Spec) *)

\* A text all of whose lines are non-blank (so not the empty text).
NoBlankLine(t) == \A i \in 1..Len(Lines(t)) : ~IsBlank(Lines(t)[i])

\* A non-blank text without a line break.
OneLine(t) == ~IsBlank(t) /\ \A i \in 1..Len(t) : t[i] # NL

\* A non-empty text without whitespace or line break.
OneToken(t) == t # <<>> /\ \A i \in 1..Len(t) : ~IsSpace(t[i]) /\ t[i] # NL

\* A percentage in [0, 100].
InRange(p) == p.whole < PercentMax \/ (p.whole = PercentMax /\ p.frac = <<>>)

AllInRange(o) == IsSome(o) => InRange(Unwrap(o))

NormalSettings(s) ==
    /\ \E i \in 1..Len(FieldOrder) : IsSome(s[FieldOrder[i]])
    /\ IsSome(s.line) =>
           (Unwrap(s.line).kind = "Percentage" => InRange(Unwrap(s.line).value))
    /\ IsSome(s.position) => InRange(Unwrap(s.position).value)
    /\ AllInRange(s.size)
    /\ IsSome(s.region) => OneToken(Unwrap(s.region))

NormalIdentifier(t) ==
    /\ OneLine(t)
    /\ ~Contains(t, KwArrow)
    /\ ~OpensWith(t, KwNote)
    /\ ~Alone(t, KwStyle)
    /\ ~Alone(t, KwRegion)

NormalCue(c) ==
    /\ IsSome(c.identifier) => NormalIdentifier(Unwrap(c.identifier))
    /\ Conventional(c.timings.start)
    /\ Conventional(c.timings.end)
    /\ IsSome(c.settings) => NormalSettings(Unwrap(c.settings))
    /\ \A i \in 1..Len(c.payload) : OneLine(c.payload[i])

NormalComment(c) ==
    IF c.kind = "Side" THEN NoBlankLine(c.text)
    ELSE c.text = <<>> \/ NoBlankLine(c.text)

NormalStyle(s) == s.style = <<>> \/ NoBlankLine(s.style)

NormalRegion(r) ==
    /\ IsSome(r.id) => \A i \in 1..Len(Unwrap(r.id)) : Unwrap(r.id)[i] # NL
    /\ AllInRange(r.width)
    /\ IsSome(r.region_anchor) =>
           InRange(Unwrap(r.region_anchor).x) /\ InRange(Unwrap(r.region_anchor).y)
    /\ IsSome(r.viewport_anchor) =>
           InRange(Unwrap(r.viewport_anchor).x)
               /\ InRange(Unwrap(r.viewport_anchor).y)

NormalBlock(b) ==
    CASE b.tag = "Que" -> NormalCue(b.val)
      [] b.tag = "Comment" -> NormalComment(b.val)
      [] b.tag = "Style" -> NormalStyle(b.val)
      [] b.tag = "Region" -> NormalRegion(b.val)

\* A document whose rendered text reads back as itself: every text is what
\* the grammar can carry in its place, every number is in its range, and a
\* present settings value has a field.
Normalized(d) ==
    /\ IsSome(d.header.description) =>
           NoBlankLine(Unwrap(d.header.description).text)
    /\ \A i \in 1..Len(d.blocks) : NormalBlock(d.blocks[i])

\* C1 as amended: for every document d that is Normalized (description,
\* comment and style texts without blank lines; a single-line identifier
\* that is no timing line and opens no NOTE, STYLE or REGION block;
\* single-line non-blank payload lines; minutes and seconds at most 59 and
\* milliseconds at most 999; percentages in [0, 100]; a present settings
\* value with at least one field; a region name without whitespace),
\* parse(render(d)) succeeds and equals d.
RoundTripNormalized ==
    (op = "render" /\ Normalized(Self)) =>
        Parse(Unwrap(rendered)) = Ok(Self)

\* C1 as stated: for every document d constructible from the data model,
\* parse(render(d)) succeeds and equals d.
RoundTripEvery == op = "render" => Parse(Unwrap(rendered)) = Ok(Self)

\* A built, normalized document of two blocks with a description "below"
\* and a cue carrying an identifier and every setting, rendered.
RoundTripWitness ==
    /\ op = "render"
    /\ parsed = None
    /\ Normalized(Self)
    /\ Len(blocks) = MaxBlocks
    /\ header = VttHeader(Some(VttDescription("Below", TxtA)))
    /\ \E i \in 1..Len(blocks) :
           /\ blocks[i].tag = "Que"
           /\ blocks[i].val.settings = Some(SettingsFull)

\* C2: for any text on which parse succeeds, parse(render(parse(text)))
\* succeeds and equals parse(text).
ReparseStable ==
    (op = "render" /\ parsed # None /\ yielded = <<>>) =>
        Parse(Unwrap(rendered)) = Unwrap(parsed)

\* A text in a form the renderer does not write (settings out of order, a
\* key given twice, padded decimals), parsed and rendered.
ReparseWitness ==
    /\ op = "render"
    /\ input = Some(InSettings)
    /\ yielded = <<>>
    /\ Unwrap(parsed).ok
    /\ Unwrap(rendered) # InSettings

\* The rendered texts of the blocks, in sequence order.
BlockTexts(bs) == [i \in 1..Len(bs) |-> VttBlockDisplay(bs[i])]

\* C3: render lays a document out as the header, "\n", then the blocks in
\* sequence order with "\n" between consecutive blocks and nothing after
\* the last: render(header) + "\n" + render(b1) + "\n" + ... + render(bn),
\* for every n >= 0.
RenderLayout ==
    op = "render" =>
        Unwrap(rendered) =
            VttHeaderDisplay(header) \o <<NL>> \o Join(BlockTexts(blocks), <<NL>>)

\* A document of two blocks, rendered.
RenderLayoutWitness ==
    /\ op = "render"
    /\ Len(blocks) = MaxBlocks
    /\ blocks[1] # blocks[2]

\* C4: successive next() calls on a document with blocks b1..bn yield
\* Some(b1), ..., Some(bn) in the original order and then None, and each
\* call removes the block at the front of the sequence.
DrainInOrder ==
    /\ \A i \in 1..Len(yielded) :
           yielded[i] = IF i <= Len(orig) THEN Some(orig[i]) ELSE None
    /\ blocks = IF Len(yielded) >= Len(orig) THEN <<>>
                ELSE SubSeq(orig, Len(yielded) + 1, Len(orig))

\* A document of two different blocks drained to the end and asked again.
DrainWitness ==
    /\ op = "next"
    /\ Len(orig) = MaxBlocks
    /\ orig[1] # orig[2]
    /\ Len(yielded) = Len(orig) + 1
    /\ yielded[Len(yielded)] = None

\* Whether x is a text: a sequence of single characters.
IsText(x) == DOMAIN x = 1..Len(x) /\ \A i \in 1..Len(x) : Len(x[i]) = 1

\* C13: render is total and free of side effects: every call returns a text,
\* the document (header and blocks), the blocks already taken and the parse
\* result are the same after the call as before it, and the text is the
\* one the document before the call determines, so rendering again without
\* a change in between returns the same text.
RenderPure ==
    [][op' = "render" =>
          /\ header' = header
          /\ blocks' = blocks
          /\ yielded' = yielded
          /\ parsed' = parsed
          /\ IsSome(rendered')
          /\ IsText(Unwrap(rendered'))
          /\ rendered' = Some(Render(WebVtt(header, blocks)))
          /\ rendered' = Some(Render(WebVtt(header', blocks')))
          /\ (op = "render" => rendered' = rendered)]_vars

\* A document of two blocks was rendered and still holds both blocks.
RenderPureWitness ==
    /\ op = "render"
    /\ Len(blocks) = 2
    /\ blocks = orig
    /\ yielded = <<>>
    /\ rendered = Some(Render(Self))

\* A timestamp written as HH:MM:SS.mmm with minutes and seconds below 60.
IsStampShape(t) ==
    /\ Len(t) = 12
    /\ t[3] = ":" /\ t[6] = ":" /\ t[9] = "."
    /\ AllDigits(SubSeq(t, 1, 2) \o SubSeq(t, 4, 5) \o SubSeq(t, 7, 8)
                     \o SubSeq(t, 10, 12))
    /\ DigitVal(t[4]) < 6
    /\ DigitVal(t[7]) < 6

\* A timing line of two such timestamps around " --> " and nothing else.
IsTimingShape(line) ==
    /\ Len(line) = 29
    /\ SubSeq(line, 13, 17) = <<SP>> \o KwArrow \o <<SP>>
    /\ IsStampShape(SubSeq(line, 1, 12))
    /\ IsStampShape(SubSeq(line, 18, 29))

\* The lines ls (the pieces of a text between its newlines) are the
\* marker, a blank line, and cues, each a timing line followed by at least
\* one payload line, with one empty line between cues and one newline at
\* the end.
CanonicalLines(ls) ==
    /\ Len(ls) >= 5
    /\ ls[1] = KwWebVtt
    /\ ls[2] = <<>>
    /\ IsTimingShape(ls[3])
    /\ ls[Len(ls)] = <<>>
    /\ \A i \in 3..(Len(ls) - 1) :
           IF IsTimingShape(ls[i])
           THEN /\ i = 3 \/ ls[i - 1] = <<>>
                /\ i < Len(ls) - 1
                /\ ~IsBlank(ls[i + 1])
           ELSE IF ls[i] = <<>>
           THEN IsTimingShape(ls[i + 1])
           ELSE ~IsBlank(ls[i])

IsCanonical(text) == CanonicalLines(Split(text, NL))

\* C14: a text already in canonical form (the marker, a blank line, cues
\* with zero-padded HH:MM:SS.mmm timestamps and their payload lines, one
\* blank line between cues, one newline at the end) parses, and the
\* rendering of the parsed document is the text itself.
CanonicalFixpoint ==
    (IsSome(input) /\ IsCanonical(Unwrap(input))) =>
        /\ Unwrap(parsed).ok
        /\ (op = "render" /\ yielded = <<>>) => rendered = input

\* The example of the module documentation (payloads shortened), parsed
\* and rendered back.
CanonicalFixpointWitness ==
    /\ op = "render"
    /\ input = Some(InCanonical)
    /\ IsCanonical(InCanonical)
    /\ yielded = <<>>
    /\ rendered = Some(InCanonical)

\* The timestamp that MM:SS.mmm denotes: hours 0 and the three numbers.
ShortStampValue(a) ==
    VttTimestamp(<<0>>, 10 * DigitVal(a[1]) + DigitVal(a[2]),
                 10 * DigitVal(a[4]) + DigitVal(a[5]),
                 100 * DigitVal(a[7]) + 10 * DigitVal(a[8]) + DigitVal(a[9]))

\* The cue without identifier and settings.
PlainCue(s, e, payload) ==
    VttBlock("Que", VttCue(None, VttTimings(s, e), None, payload))

\* C15: the parser accepts the short timestamp form MM:SS.mmm and reads it
\* as the long form with hours 00: "00:01.000 --> 00:04.000" gives the
\* timings (0,0,1,0) to (0,0,4,0), a short-form cue parses to what the
\* same cue with "00:" before each timestamp parses to, and the payload
\* lines of each cue are kept in input order.
ShortFormAccepted ==
    op = "parse" =>
        /\ input = Some(InShort) =>
               parsed = Some(Ok(WebVtt(VttHeaderDefault,
                   <<PlainCue(Ts1, Ts4, <<Chars("- N")>>),
                     PlainCue(VttTimestamp(<<0>>, 0, 5, 0),
                              VttTimestamp(<<0>>, 0, 9, 0),
                              <<Chars("- I"), Chars("- Y")>>)>>)))
        /\ \A a \in ShortStamps : \A b \in ShortStamps :
               input = Some(TimedInput(a, b)) =>
                   /\ parsed = Some(Parse(TimedInput(LongOf(a), LongOf(b))))
                   /\ parsed = Some(Ok(WebVtt(VttHeaderDefault,
                          <<PlainCue(ShortStampValue(a), ShortStampValue(b),
                                     <<Chars("- N")>>)>>)))

\* The fixture of test::parse was parsed into its two cues.
ShortFormWitness ==
    /\ op = "parse"
    /\ input = Some(InShort)
    /\ Unwrap(parsed).ok
    /\ Len(blocks) = 2
    /\ blocks[1].val.timings = VttTimings(Ts1, Ts4)
    /\ blocks[2].val.payload = <<Chars("- I"), Chars("- Y")>>

\* The kinds of error of section 7.
ErrorKinds ==
    {"MissingHeader", "MalformedTimestamp", "MissingTimingLine",
     "UnrecognizedSettingKey", "UnrecognizedRegionKey", "UnknownEnumValue",
     "MalformedPercentage", "MalformedNumber", "UnexpectedEndOfInput"}

\* A failed parse left nothing but its error: no document value, no method
\* of a document called.
NothingProduced ==
    /\ DOMAIN Unwrap(parsed) = {"ok", "err"}
    /\ Unwrap(parsed).err.kind \in ErrorKinds
    /\ header = VttHeaderDefault
    /\ blocks = <<>>
    /\ rendered = None
    /\ yielded = <<>>
    /\ op = "parse"

\* C16: parsing is fail-fast and all-or-nothing: a malformed construct
\* anywhere in the input makes the whole parse return an error and no
\* document, whatever well-formed blocks come before or after it (the
\* error is the one of the malformed block alone); the same well-formed
\* blocks without the malformed one parse into a document of all of them.
FailFast ==
    /\ (IsSome(parsed) /\ ~Unwrap(parsed).ok) => NothingProduced
    /\ op = "parse" =>
           \A i \in 1..3 : \A j \in 1..3 :
               /\ \A k \in 1..Len(BadBlocks) :
                      input = Some(Around(GoodBefore[i], BadBlocks[k][1],
                                          GoodAfter[j])) =>
                          /\ ~Unwrap(parsed).ok
                          /\ Unwrap(parsed).err.kind = BadBlocks[k][2]
                          /\ parsed = Some(Parse(Around(<<>>, BadBlocks[k][1],
                                                        <<>>)))
               /\ input = Some(Around(GoodBefore[i], <<>>, GoodAfter[j])) =>
                      /\ Unwrap(parsed).ok
                      /\ Len(blocks) = GoodCount[i] + GoodCount[j]

\* A percentage out of range in the third of five blocks failed the parse.
FailFastWitness ==
    /\ op = "parse"
    /\ input = Some(Around(GoodBefore[3], BadBlocks[6][1], GoodAfter[3]))
    /\ ~Unwrap(parsed).ok
    /\ Unwrap(parsed).err.kind = "MalformedPercentage"
    /\ blocks = <<>>

\* C17: a timing line written with "->" instead of "-->" is not taken as
\* a timing line but as an identifier candidate, and the next line must be
\* a timing line: when it is not, the parse fails with MissingTimingLine;
\* when it is, the "->" line is the identifier of the cue.
ArrowNotTiming ==
    op = "parse" =>
        /\ input = Some(InBadArrow) =>
               /\ ~Unwrap(parsed).ok
               /\ Unwrap(parsed).err.kind = "MissingTimingLine"
        /\ \A i \in 1..3 :
               /\ \A next \in NotTimingLines :
                      input = Some(ArrowInput(GoodBefore[i], next)) =>
                          /\ ~Unwrap(parsed).ok
                          /\ Unwrap(parsed).err.kind = "MissingTimingLine"
               /\ \A next \in TimingLines :
                      input = Some(ArrowInput(GoodBefore[i], next)) =>
                          /\ Unwrap(parsed).ok
                          /\ Len(blocks) = GoodCount[i] + 1
                          /\ blocks[Len(blocks)].tag = "Que"
                          /\ blocks[Len(blocks)].val.identifier
                                 = Some(ArrowLine)
                          /\ blocks[Len(blocks)].val.payload = <<Chars("b")>>

\* The line with the missing dash, followed by a payload line, failed the
\* parse after a well-formed cue.
ArrowNotTimingWitness ==
    /\ op = "parse"
    /\ input = Some(ArrowInput(GoodBefore[2], Chars("a")))
    /\ parsed = Some(Fail("MissingTimingLine", Chars("a")))

\* C18: a region block with a line whose key is not a region key fails the
\* parse with UnrecognizedRegionKey, at whatever position the line stands
\* among the well-formed lines of the block (the block without that line
\* parses into the region of its lines).
UnknownRegionKeyFails ==
    op = "parse" =>
        /\ input = Some(InBadRegionKey) =>
               parsed = Some(Fail("UnrecognizedRegionKey", Chars("foo")))
        /\ \A i \in 1..2 : \A j \in 1..2 : \A n \in 0..Len(RegionLines) :
               /\ \A u \in UnknownKeyLines :
                      input = Some(RegionInput(GoodBefore[i], n, <<u>>,
                                               GoodAfter[j])) =>
                          parsed = Some(Fail("UnrecognizedRegionKey", KeyOf(u)))
               /\ input = Some(RegionInput(GoodBefore[i], n, <<>>,
                                           GoodAfter[j])) =>
                      /\ Unwrap(parsed).ok
                      /\ blocks[GoodCount[i] + 1]
                             = VttBlock("Region",
                                   VttRegion(Some(TxtId), Some(Pct50),
                                             Some(<<3>>), None, None,
                                             Some("Up")))

\* The unknown key on the third of the five lines of a region failed the
\* parse.
UnknownRegionKeyWitness ==
    /\ op = "parse"
    /\ input = Some(RegionInput(<<>>, 2, <<Chars("foo:bar")>>, <<>>))
    /\ parsed = Some(Fail("UnrecognizedRegionKey", Chars("foo")))

\* The calls of next() so far that returned Some.
SomeCalls == {i \in 1..Len(yielded) : yielded[i] # None}

\* C22: the draining iterator is fused: once next() has returned None,
\* every later next() returns None and the block sequence stays empty;
\* the calls that return Some are the first n calls, n the initial number
\* of blocks, so the first None is the result of call n+1.
FusedDrain ==
    /\ [](/\ \A i \in 1..Len(yielded) : \A j \in i..Len(yielded) :
                yielded[i] = None => yielded[j] = None
          /\ (\E i \in 1..Len(yielded) : yielded[i] = None) => blocks = <<>>
          /\ SomeCalls = 1..(IF Len(yielded) < Len(orig)
                             THEN Len(yielded) ELSE Len(orig))
          /\ Cardinality(SomeCalls) <= Len(orig)
          /\ Len(yielded) > Len(orig) =>
                 /\ Cardinality(SomeCalls) = Len(orig)
                 /\ yielded[Len(orig) + 1] = None)
    /\ [][(op' = "next" /\ yielded # <<>> /\ yielded[Len(yielded)] = None) =>
              /\ yielded' = Append(yielded, None)
              /\ blocks = <<>>
              /\ blocks' = <<>>]_vars

\* A document of two blocks after four calls: two blocks, then None twice.
FusedDrainWitness ==
    /\ op = "next"
    /\ Len(orig) = 2
    /\ Len(yielded) = 4
    /\ yielded = <<Some(orig[1]), Some(orig[2]), None, None>>
    /\ blocks = <<>>

\* C23: each next() leaves the header as it is and leaves as the blocks
\* the blocks before the call without the first, in the same order and one
\* fewer; with no block, next() changes nothing of the document.
NextFrame ==
    [][op' = "next" =>
          /\ header' = header
          /\ parsed' = parsed
          /\ rendered' = rendered
          /\ blocks # <<>> =>
                 /\ Len(blocks') = Len(blocks) - 1
                 /\ \A i \in 1..Len(blocks') : blocks'[i] = blocks[i + 1]
                 /\ yielded' = Append(yielded, Some(blocks[1]))
          /\ blocks = <<>> =>
                 /\ blocks' = blocks
                 /\ yielded' = Append(yielded, None)]_vars

\* The first of two different blocks was taken from a document with a
\* description: the second is left, the header is as built.
NextFrameWitness ==
    /\ op = "next"
    /\ Len(orig) = 2
    /\ orig[1] # orig[2]
    /\ yielded = <<Some(orig[1])>>
    /\ blocks = <<orig[2]>>
    /\ header # VttHeaderDefault

-----------------------------------------------------------------------------
(* Properties of the Display implementations (specification SpecDisplay) *)

\* C5: a cue renders as the identifier on its own line iff it is present,
\* then the timing line "<start> --> <end>", followed by one space and the
\* rendered settings iff settings are present, then a newline, the payload
\* lines joined by newlines, and one trailing newline.
CueLayout ==
    (op = "show" /\ subject.type = "VttCue") =>
        LET c == subject.val
            timing ==
                Join(<<VttTimestampDisplay(c.timings.start), KwArrow,
                       VttTimestampDisplay(c.timings.end)>>
                         \o (IF IsSome(c.settings)
                             THEN <<CueSettingsDisplay(Unwrap(c.settings))>>
                             ELSE <<>>),
                     <<SP>>)
            above == IF IsSome(c.identifier)
                     THEN <<Unwrap(c.identifier), timing>> ELSE <<timing>>
        IN  Unwrap(shown) =
                Join(above \o <<Join(c.payload, <<NL>>)>>, <<NL>>) \o <<NL>>

\* A cue with an identifier, every setting and two payload lines, shown.
CueLayoutWitness ==
    /\ op = "show"
    /\ subject.type = "VttCue"
    /\ IsSome(subject.val.identifier)
    /\ subject.val.settings = Some(SettingsFull)
    /\ Len(subject.val.payload) = 2

\* The text a present field's value is written as.
FieldText(f, v) ==
    CASE f = "vertical" -> VerticalDisplay(v)
      [] f = "line" -> LineDisplay(v)
      [] f = "position" -> PositionDisplay(v)
      [] f = "size" -> PercentageDisplay(v)
      [] f = "align" -> AlignmentDisplay(v)
      [] f = "region" -> v

RECURSIVE PresentFrom(_, _)
\* The present fields of s among FieldOrder[i..], in that order.
PresentFrom(s, i) ==
    IF i > Len(FieldOrder) THEN <<>>
    ELSE (IF IsSome(s[FieldOrder[i]]) THEN <<FieldOrder[i]>> ELSE <<>>)
         \o PresentFrom(s, i + 1)

\* C6: for each present/absent combination of the six settings fields, the
\* rendered text is exactly the present fields as key:value tokens in the
\* order vertical, line, position, size, align, region, separated by single
\* spaces, whatever the order in which the fields were assigned.
SettingsLayout ==
    (op = "show" /\ subject.type = "CueSettings") =>
        LET s == subject.val
            present == PresentFrom(s, 1)
        IN  /\ {present[i] : i \in 1..Len(present)}
                   = {assigned[i] : i \in 1..Len(assigned)}
            /\ Unwrap(shown) =
                   Join([i \in 1..Len(present) |->
                            Chars(present[i]) \o <<":">>
                                \o FieldText(present[i], Unwrap(s[present[i]]))],
                        <<SP>>)

\* All six fields assigned from the last to the first, then shown.
SettingsLayoutWitness ==
    /\ op = "show"
    /\ subject.type = "CueSettings"
    /\ assigned = <<"region", "align", "size", "position", "line", "vertical">>

\* The width "{:0w}" gives a number of the given digits.
WidthOf(ds, w) == IF Len(ds) > w THEN Len(ds) ELSE w

\* The number a run of characters denotes, or <<>> if it is not digits.
NumberAt(text, from, width) ==
    IF AllDigits(SubSeq(text, from, from + width - 1))
    THEN BigOfText(SubSeq(text, from, from + width - 1))
    ELSE <<>>

\* C7 as amended: a timestamp renders as hours:minutes:seconds.milliseconds
\* in decimal, zero-padded to at least 2, 2, 2 and 3 digits; the text is the
\* fixed-width HH:MM:SS.mmm of 12 characters exactly when hours, minutes
\* and seconds are at most 99 and milliseconds at most 999, and a larger
\* field is written with all its digits.
TimestampMinWidth ==
    (op = "show" /\ subject.type = "VttTimestamp") =>
        LET t == subject.val
            text == Unwrap(shown)
            wh == WidthOf(t.hours, 2)
            wm == WidthOf(NatDigits(t.minutes), 2)
            ws == WidthOf(NatDigits(t.seconds), 2)
            wms == WidthOf(NatDigits(t.milliseconds), 3)
        IN  /\ Len(text) = wh + wm + ws + wms + 3
            /\ NumberAt(text, 1, wh) = t.hours
            /\ text[wh + 1] = ":"
            /\ NumberAt(text, wh + 2, wm) = NatDigits(t.minutes)
            /\ text[wh + wm + 2] = ":"
            /\ NumberAt(text, wh + wm + 3, ws) = NatDigits(t.seconds)
            /\ text[wh + wm + ws + 3] = "."
            /\ NumberAt(text, wh + wm + ws + 4, wms) = NatDigits(t.milliseconds)
            /\ Len(text) = 12 <=>
                   /\ Len(t.hours) <= 2
                   /\ t.minutes <= 99
                   /\ t.seconds <= 99
                   /\ t.milliseconds <= 999

\* C7 as stated: every timestamp renders in exactly 12 characters, two
\* digits of hours, two of minutes, two of seconds, three of milliseconds.
TimestampFixedWidth ==
    (op = "show" /\ subject.type = "VttTimestamp") =>
        LET text == Unwrap(shown)
        IN  /\ Len(text) = 12
            /\ \A i \in {1, 2, 4, 5, 7, 8, 10, 11, 12} : AllDigits(<<text[i]>>)
            /\ text[3] = ":" /\ text[6] = ":" /\ text[9] = "."

\* The timestamp with the largest value of every field, shown.
TimestampWidthWitness ==
    /\ op = "show"
    /\ subject = [type |-> "VttTimestamp",
                  val |-> VttTimestamp(U32Max, 255, 255, 65535)]
    /\ shown = Some(Chars("4294967295:255:255.65535"))

\* C10: a percentage in [0, 100] renders as its integer part and '%' when
\* its fractional part is zero, and as its decimal value and '%' otherwise
\* (50.0 -> "50%", 50.5 -> "50.5%").
PercentageForm ==
    (op = "show" /\ subject.type = "Percentage") =>
        LET p == subject.val
            text == Unwrap(shown)
            body == SubSeq(text, 1, Len(text) - 1)
            dot == IndexOf(body, ".")
            int == IF dot = 0 THEN body ELSE SubSeq(body, 1, dot - 1)
            dec == IF dot = 0 THEN <<>> ELSE SubSeq(body, dot + 1, Len(body))
        IN  /\ text[Len(text)] = "%"
            /\ AllDigits(int) /\ DigitsOf(int) = NatDigits(p.whole)
            /\ (dot = 0) <=> FractIsZero(p)
            /\ dot # 0 => AllDigits(dec) /\ DigitsOf(dec) = p.frac
            /\ p = Pct50 => text = Chars("50%")
            /\ p = PctHalf => text = Chars("50.5%")

\* The percentage 50.5, shown.
PercentageFormWitness ==
    /\ op = "show"
    /\ subject = [type |-> "Percentage", val |-> PctHalf]
    /\ shown = Some(Chars("50.5%"))

\* The fields of a region in the order they are written, with their keys.
RegionOrder ==
    <<<<"id", Chars("id")>>, <<"width", Chars("width")>>,
      <<"lines", Chars("lines")>>,
      <<"region_anchor", Chars("regionanchor")>>,
      <<"viewport_anchor", Chars("viewportanchor")>>,
      <<"scroll", Chars("scroll")>>>>

\* The text a present region field's value is written as.
RegionFieldText(f, v) ==
    CASE f = "id" -> v
      [] f = "width" -> PercentageDisplay(v)
      [] f = "lines" -> DigitsText(v)
      [] f = "region_anchor" -> AnchorDisplay(v)
      [] f = "viewport_anchor" -> AnchorDisplay(v)
      [] f = "scroll" -> Chars("up")

RECURSIVE RegionLinesFrom(_, _)
\* The key:value lines of the present fields of r among RegionOrder[i..].
RegionLinesFrom(r, i) ==
    IF i > Len(RegionOrder) THEN <<>>
    ELSE (IF IsSome(r[RegionOrder[i][1]])
          THEN <<RegionOrder[i][2] \o <<":">>
                     \o RegionFieldText(RegionOrder[i][1],
                                        Unwrap(r[RegionOrder[i][1]]))>>
          ELSE <<>>)
         \o RegionLinesFrom(r, i + 1)

\* C11: a region renders as the line REGION followed by one key:value line
\* for each present field and no line for an absent field, in the order id,
\* width, lines, regionanchor, viewportanchor, scroll, for each of the 64
\* present/absent combinations; with no field it renders as "REGION\n".
RegionLayout ==
    (op = "show" /\ subject.type = "VttRegion") =>
        /\ Split(Unwrap(shown), NL)
               = <<KwRegion>> \o RegionLinesFrom(subject.val, 1) \o <<<<>>>>
        /\ subject.val = VttRegionDefault => Unwrap(shown) = Chars("REGION\n")

\* A region with the three fields id, lines and scroll, shown.
RegionLayoutWitness ==
    /\ op = "show"
    /\ subject = [type |-> "VttRegion",
                  val |-> VttRegion(Some(TxtId), None, Some(<<3>>), None, None,
                                    Some("Up"))]
    /\ shown = Some(Chars("REGION\nid:id\nlines:3\nscroll:up\n"))

\* The three headers a description text t can be placed in.
HeaderForms(t) ==
    <<VttHeader(None), VttHeader(Some(VttDescription("Side", t))),
      VttHeader(Some(VttDescription("Below", t)))>>

\* The header that the text of a document with header h and no block
\* parses to (<<>> if it does not parse).
HeaderReadBack(h) ==
    IF Parse(Render(WebVtt(h, <<>>))).ok
    THEN <<Parse(Render(WebVtt(h, <<>>))).val.header>>
    ELSE <<>>

PairwiseDifferent(q) ==
    \A i \in 1..Len(q) : \A j \in 1..Len(q) : i # j => q[i] # q[j]

\* The header is written as "WEBVTT\n", "WEBVTT " + text + "\n" (Side) or
\* "WEBVTT\n" + text + "\n" (Below), and for the description text of the
\* header the three forms are written as pairwise different texts.
HeaderTexts ==
    LET h == subject.val
        d == Unwrap(h.description)
        forms == HeaderForms(d.text)
    IN  /\ h.description = None => Unwrap(shown) = Chars("WEBVTT\n")
        /\ IsSome(h.description) =>
               /\ d.kind = "Side" =>
                      Unwrap(shown) = Chars("WEBVTT ") \o d.text \o <<NL>>
               /\ d.kind = "Below" =>
                      Unwrap(shown) = Chars("WEBVTT\n") \o d.text \o <<NL>>
               /\ PairwiseDifferent([i \in 1..3 |-> VttHeaderDisplay(forms[i])])

\* C12 as amended: the header renders as "WEBVTT\n" with no description,
\* as "WEBVTT " + text + "\n" for Side and as "WEBVTT\n" + text + "\n" for
\* Below, three pairwise different texts for every description text; and
\* for every description text without a blank line (so not the empty
\* text) each of the three forms reads back as itself, so as three
\* distinct values.
HeaderFormsDistinct ==
    (op = "show" /\ subject.type = "VttHeader") =>
        /\ HeaderTexts
        /\ (IsSome(subject.val.description)
                /\ NoBlankLine(Unwrap(subject.val.description).text)) =>
               \A i \in 1..3 :
                   HeaderReadBack(
                       HeaderForms(Unwrap(subject.val.description).text)[i])
                     = <<HeaderForms(Unwrap(subject.val.description).text)[i]>>

\* C12 as stated: for every description text the three forms render to
\* pairwise different texts and read back as pairwise distinct values.
HeaderFormsDistinctEvery ==
    (op = "show" /\ subject.type = "VttHeader") =>
        /\ HeaderTexts
        /\ IsSome(subject.val.description) =>
               /\ \A i \in 1..3 :
                      HeaderReadBack(
                          HeaderForms(Unwrap(subject.val.description).text)[i])
                        # <<>>
               /\ PairwiseDifferent(
                      [i \in 1..3 |->
                          HeaderReadBack(
                              HeaderForms(
                                  Unwrap(subject.val.description).text)[i])])

\* The header with the description of test::display_header below the
\* marker, shown.
HeaderFormsWitness ==
    /\ op = "show"
    /\ subject.type = "VttHeader"
    /\ subject.val.description
           = Some(VttDescription("Below", Chars("This is a description.")))
    /\ shown = Some(Chars("WEBVTT\nThis is a description.\n"))

\* C21: a comment renders as "NOTE " + text + "\n" for Side and as
\* "NOTE\n" + text + "\n" for Below, the text (newlines included) written
\* unchanged between the fifth character and the final newline, so Side
\* and Below of the same text render differently.
CommentForms ==
    (op = "show" /\ subject.type = "VttComment") =>
        /\ subject.val.kind = "Side" =>
               Unwrap(shown) = Chars("NOTE ") \o subject.val.text \o <<NL>>
        /\ subject.val.kind = "Below" =>
               Unwrap(shown) = Chars("NOTE\n") \o subject.val.text \o <<NL>>
        /\ SubSeq(Unwrap(shown), 6, Len(Unwrap(shown)) - 1) = subject.val.text
        /\ Unwrap(shown)
               # VttCommentDisplay(
                     VttComment(IF subject.val.kind = "Side"
                                THEN "Below" ELSE "Side",
                                subject.val.text))

\* The Below comment of a text of several lines with an empty one, shown.
CommentFormsWitness ==
    /\ op = "show"
    /\ subject = [type |-> "VttComment",
                  val |-> VttComment("Below", Chars("a\n\nb\n"))]
    /\ shown = Some(Chars("NOTE\na\n\nb\n\n"))

\* The cue c with another payload.
WithPayload(c, p) == [c EXCEPT !.payload = p]

\* The last n characters of a text.
LastChars(t, n) == SubSeq(t, Len(t) - n + 1, Len(t))

\* C26: the rendering of a cue is not injective on the payload: the cue
\* without payload line and the same cue with one empty payload line
\* render to the same text (the timing line followed by an empty line),
\* and payload <<"a", "b">> renders to the same text as <<"a\nb">>.
PayloadNotInjective ==
    (op = "show" /\ subject.type = "VttCue") =>
        /\ subject.val.payload \in {<<>>, <<TxtEmpty>>} =>
               /\ shown = Some(VttCueDisplay(WithPayload(subject.val, <<>>)))
               /\ shown = Some(VttCueDisplay(WithPayload(subject.val,
                                                         <<TxtEmpty>>)))
               /\ LastChars(Unwrap(shown), 2) = <<NL, NL>>
        /\ subject.val.payload \in {<<TxtA, TxtB>>, <<TxtTwoLines>>} =>
               /\ shown = Some(VttCueDisplay(WithPayload(subject.val,
                                                         <<TxtA, TxtB>>)))
               /\ shown = Some(VttCueDisplay(WithPayload(subject.val,
                                                         <<TxtTwoLines>>)))
               /\ LastChars(Unwrap(shown), 5) = Chars("\na\nb\n")

\* The cue with one empty payload line, shown as the timing line and an
\* empty line.
PayloadNotInjectiveWitness ==
    /\ op = "show"
    /\ subject = [type |-> "VttCue",
                  val |-> VttCue(None, VttTimings(Ts1, Ts4), None,
                                 <<TxtEmpty>>)]
    /\ shown = Some(Chars("00:00:01.000 --> 00:00:04.000\n\n"))
    /\ shown = Some(VttCueDisplay(WithPayload(subject.val, <<>>)))

\* The timing line of the shown cue: the first line, or the second after
\* an identifier.
ShownTimingLine ==
    Split(Unwrap(shown), NL)[IF IsSome(subject.val.identifier) THEN 2 ELSE 1]

\* C27: a cue whose settings are present with all six fields absent renders
\* its timing line as the timings followed by one space and nothing else;
\* the same cue with absent settings renders it without that space, so the
\* two cues render differently.
EmptySettingsSpace ==
    (op = "show" /\ subject.type = "VttCue") =>
        /\ subject.val.settings = Some(CueSettingsDefault) =>
               /\ ShownTimingLine
                      = VttTimingsDisplay(subject.val.timings) \o <<SP>>
               /\ Unwrap(shown)
                      # VttCueDisplay([subject.val EXCEPT !.settings = None])
               /\ Len(Unwrap(shown))
                      = Len(VttCueDisplay([subject.val
                                              EXCEPT !.settings = None])) + 1
        /\ subject.val.settings = None =>
               /\ ShownTimingLine = VttTimingsDisplay(subject.val.timings)
               /\ Unwrap(shown)
                      # VttCueDisplay([subject.val EXCEPT
                                          !.settings = Some(CueSettingsDefault)])

\* The cue with present settings of no field, shown with the space after
\* the end timestamp.
EmptySettingsWitness ==
    /\ op = "show"
    /\ subject = [type |-> "VttCue",
                  val |-> VttCue(None, VttTimings(Ts1, Ts4),
                                 Some(CueSettingsDefault), <<TxtA>>)]
    /\ shown = Some(Chars("00:00:01.000 --> 00:00:04.000 \na\n"))

-----------------------------------------------------------------------------
(* Properties of the conversions and the ordering (specification SpecTime) *)

\* C8 as amended: for every timestamp t with minutes and seconds at most 59
\* and milliseconds at most 999 (any hours), converting t to a Duration
\* succeeds and converting that Duration back yields t; for every other
\* timestamp the conversion panics or yields a different timestamp.
TimeRoundTripConventional ==
    /\ (op \in {"into", "from"} /\ Conventional(stamp)) => ~panicked
    /\ op = "from" => (converted = Some(stamp) <=> Conventional(stamp))

\* C8 as stated: for every timestamp t, converting t to a Duration and
\* back yields a timestamp with the same fields.
TimeRoundTripEvery ==
    /\ op \in {"into", "from"} => ~panicked
    /\ op = "from" => converted = Some(stamp)

\* 1 s 500 ms converted to 1.5 s and back.
TimeRoundTripWitness ==
    /\ op = "from"
    /\ stamp = VttTimestamp(<<0>>, 0, 1, 500)
    /\ dur = Some(Duration(<<1>>, 500000000))
    /\ converted = Some(stamp)

\* The fields of a timestamp in declaration order, as Bigs.
FieldsOf(t) ==
    <<t.hours, NatDigits(t.minutes), NatDigits(t.seconds),
      NatDigits(t.milliseconds)>>

\* a is before b in the lexicographic order of the fields.
LexLess(a, b) ==
    \E k \in 1..4 :
        /\ \A j \in 1..(k - 1) : FieldsOf(a)[j] = FieldsOf(b)[j]
        /\ BigLess(FieldsOf(a)[k], FieldsOf(b)[k])

\* C9: the ordering of timestamps is lexicographic over (hours, minutes,
\* seconds, milliseconds); for two timestamps with minutes and seconds at
\* most 59 and milliseconds at most 999, a < b iff duration(a) <
\* duration(b); and 00:00:01.000 < 00:00:04.000.
OrderingAgrees ==
    op = "cmp" =>
        LET a == stamp
            b == Unwrap(stamp2)
            o == Unwrap(ordering)
        IN  /\ o = "Less" <=> LexLess(a, b)
            /\ o = "Greater" <=> LexLess(b, a)
            /\ o = "Equal" <=> a = b
            /\ (Conventional(a) /\ Conventional(b)) =>
                   (o = "Less" <=>
                        DurationCmp(IntoDuration(a, TRUE).val,
                                    IntoDuration(b, TRUE).val) = "Less")
            /\ (a = Ts1 /\ b = Ts4) => o = "Less"

\* 00:00:01.000 compared with 00:00:04.000.
OrderingWitness ==
    /\ op = "cmp"
    /\ stamp = Ts1
    /\ stamp2 = Some(Ts4)
    /\ ordering = Some("Less")

\* The first number of seconds that is 2^32 hours or more.
HoursLimit == BigAdd(BigMulSmall(U32Max, SecsPerHour), NatDigits(SecsPerHour))

\* d rounded down to whole milliseconds.
FloorMillis(d) ==
    Duration(d.secs, (d.nanos \div NanosPerMilli) * NanosPerMilli)

\* C19: the conversion from a Duration d below 2^32 hours to a timestamp
\* truncates to milliseconds: the timestamp holds the whole milliseconds
\* of d, and converting it back gives d rounded down to whole
\* milliseconds, which is never greater than d, is less than one
\* millisecond below d, and is d exactly when d is a whole number of
\* milliseconds.
TruncatesToMillis ==
    (op \in {"fromdur", "back"} /\ BigLess(Unwrap(dur).secs, HoursLimit)) =>
        /\ Conventional(Unwrap(converted))
        /\ Unwrap(converted).milliseconds
               = Unwrap(dur).nanos \div NanosPerMilli
        /\ op = "back" =>
               /\ Unwrap(back).ok
               /\ Unwrap(back).val = FloorMillis(Unwrap(dur))
               /\ DurationCmp(Unwrap(back).val, Unwrap(dur))
                      \in {"Less", "Equal"}
               /\ Unwrap(back).val.secs = Unwrap(dur).secs
               /\ Unwrap(dur).nanos - Unwrap(back).val.nanos
                      \in 0..(NanosPerMilli - 1)
               /\ Unwrap(back).val = Unwrap(dur)
                      <=> Unwrap(dur).nanos % NanosPerMilli = 0

\* 1 s 1500000 ns became 1 s 1 ms and, converted back, 1 s 1000000 ns.
TruncatesWitness ==
    /\ op = "back"
    /\ dur = Some(Duration(<<1>>, 1500000))
    /\ converted = Some(VttTimestamp(<<0>>, 0, 1, 1))
    /\ back = Some(Ok(Duration(<<1>>, 1000000)))

-----------------------------------------------------------------------------
(* Properties of the parser's main loop (specification SpecLoop) *)

\* Where the loop stands: within the input while it runs; past its last
\* line when it has ended, with the result of the parse in one step.
LoopInv ==
    /\ op = "loop" =>
           /\ cursor \in 2..(Len(LoopLines) + 1)
           /\ parsed = None
    /\ op = "done" =>
           /\ cursor = Len(LoopLines) + 1
           /\ parsed = Some(Parse(Unwrap(input)))
           /\ parsed = Some(Ok(WebVtt(header, blocks)))
    /\ op = "failed" =>
           /\ parsed = Some(Parse(Unwrap(input)))
           /\ ~Unwrap(parsed).ok

\* One iteration: the lines skipped are blank; then the loop ends at the
\* end of the input, or fails, or has read at least one line into a block
\* that stands after the blocks parsed before.
LoopProgress ==
    op = "loop" =>
        /\ \A k \in cursor..(SkipBlank(LoopLines, cursor) - 1) :
               IsBlank(LoopLines[k])
        /\ \/ /\ op' = "done"
              /\ SkipBlank(LoopLines, cursor) > Len(LoopLines)
              /\ blocks' = blocks
           \/ /\ op' = "failed"
              /\ SkipBlank(LoopLines, cursor) <= Len(LoopLines)
           \/ /\ op' = "loop"
              /\ cursor' > SkipBlank(LoopLines, cursor)
              /\ cursor' > cursor
              /\ Len(blocks') = Len(blocks) + 1
              /\ SubSeq(blocks', 1, Len(blocks)) = blocks
              /\ blocks'[Len(blocks')]
                     = ParseBlock(LoopLines, SkipBlank(LoopLines, cursor)).val

\* C20: the parser's main loop terminates on every finite input: each
\* iteration skips blank lines and then ends at the end of the input,
\* fails, or reads at least one line into a block appended after the
\* blocks parsed before, so the position in the input strictly increases;
\* when the loop ends with success the input is read to its end and the
\* blocks are in input order (the result is the one of the parse).
LoopTerminates ==
    /\ []LoopInv
    /\ [][LoopProgress]_vars
    /\ (op = "loop") ~> (op \in {"done", "failed"})

\* The loop ended with the four blocks of an input, read to its end.
LoopTerminatesWitness ==
    /\ op = "done"
    /\ input = Some(Around(GoodBefore[3], <<>>, GoodAfter[3]))
    /\ Len(blocks) = 4
    /\ cursor = Len(LoopLines) + 1
    /\ blocks[1] = VttBlock("Comment", VttComment("Side", TxtA))
    /\ blocks[4].tag = "Style"

\* The duration of hours*3600 + minutes*60 + seconds seconds plus
\* milliseconds milliseconds.
ExactDuration(t) ==
    Duration(BigAdd(BigAdd(BigMulSmall(t.hours, SecsPerHour),
                           NatDigits(t.minutes * SecsPerMinute)),
                    NatDigits(t.seconds + (t.milliseconds \div 1000))),
             (t.milliseconds % 1000) * NanosPerMilli)

\* C24: for every timestamp (any u32 hours, u8 minutes, u8 seconds, u16
\* milliseconds) the conversion to a Duration computes milliseconds *
\* 1,000,000 in u32 without overflow and returns the duration of exactly
\* hours*3600 + minutes*60 + seconds seconds plus milliseconds
\* milliseconds.
IntoDurationExact ==
    op = "into" =>
        /\ ~MillisOverflow(stamp)
        /\ ~panicked
        /\ dur = Some(ExactDuration(stamp))

\* The conversion is exact for the timestamps whose milliseconds are at
\* most 4294, the largest whose product with 1,000,000 is a u32.
IntoDurationExactBelow ==
    (op = "into" /\ stamp.milliseconds <= 4294) =>
        /\ ~MillisOverflow(stamp)
        /\ ~panicked
        /\ dur = Some(ExactDuration(stamp))

\* 4295 ms converted in a build without overflow checks: the product
\* 4,295,000,000 wrapped to 32,704 ns.
IntoOverflowWitness ==
    /\ op = "into"
    /\ stamp = VttTimestamp(<<0>>, 0, 0, 4295)
    /\ MillisOverflow(stamp)
    /\ ~panicked
    /\ dur = Some(Duration(<<0>>, 32704))

\* The same conversion in a build with overflow checks: it panicked.
IntoPanicWitness ==
    /\ op = "into"
    /\ stamp = VttTimestamp(<<0>>, 0, 0, 4295)
    /\ panicked
    /\ dur = None

\* The whole hours of a duration: floor(whole seconds / 3600).
WholeHours(d) == BigDivSmall(d.secs, SecsPerHour)

\* x and y (y below 2^32) are equal modulo 2^32: their low and their high
\* 16 bits agree.
SameModTwoPow32(x, y) ==
    /\ BigModSmall(x, TwoPow16) = BigModSmall(y, TwoPow16)
    /\ BigModSmall(BigDivSmall(x, TwoPow16), TwoPow16)
           = BigToNat(BigDivSmall(y, TwoPow16))

\* C25: every timestamp produced from a Duration has minutes <= 59,
\* seconds <= 59 and milliseconds <= 999, and its hours are
\* floor(whole seconds / 3600) when that fits in 32 bits and that quotient
\* modulo 2^32 otherwise.
FromDurationRanges ==
    (op \in {"fromdur", "from"}) =>
        /\ Unwrap(converted).minutes <= 59
        /\ Unwrap(converted).seconds <= 59
        /\ Unwrap(converted).milliseconds <= 999
        /\ ~BigLess(U32Max, Unwrap(converted).hours)
        /\ ~BigLess(U32Max, WholeHours(Unwrap(dur))) =>
               Unwrap(converted).hours = WholeHours(Unwrap(dur))
        /\ BigLess(U32Max, WholeHours(Unwrap(dur))) =>
               SameModTwoPow32(WholeHours(Unwrap(dur)),
                               Unwrap(converted).hours)
        /\ Unwrap(dur).secs = U64Max =>
               Unwrap(converted).hours = <<2, 0, 2, 3, 4, 0, 6, 8, 1, 5>>

\* The last second before 2^32 hours and 999999999 ns: hours u32::MAX,
\* 59 minutes, 59 seconds, 999 milliseconds.
FromDurationWitness ==
    /\ op = "fromdur"
    /\ Unwrap(dur).nanos = 999999999
    /\ converted = Some(VttTimestamp(U32Max, 59, 59, 999))

\* 2^32 hours and two more, less a second: the hours wrapped to 1.
FromDurationWrapWitness ==
    /\ op = "fromdur"
    /\ BigLess(U32Max, WholeHours(Unwrap(dur)))
    /\ Unwrap(converted).hours = <<1>>
    /\ Unwrap(converted).minutes = 59

====
